---- MODULE Spec2Model ----
(***************************************************************************)
(* A model of the execution core of async-graphql: the execution context   *)
(* (variables, directives, argument binding), the query and mutation       *)
(* resolvers, and the QueryBuilder drivers execute / execute_stream.        *)
(***************************************************************************)
EXTENDS Integers, Sequences, FiniteSets, TLC

VARIABLES
    env,        \* Environment: variables, variable_definitions, fragments
    features,   \* the cargo features serde_json is built with
    call,       \* the context operation applied last (name and inputs)
    ret,        \* what that operation returned
    pc,         \* position of the QueryBuilder driver
    req,        \* the request being executed
    units,      \* the field futures collected by collect_fields
    plan,       \* mutation root: the walk still to be performed
    values,     \* mutation root: the serde_json::Map under construction
    log,        \* resolver / extension events in the order they happened
    resolve_id, \* the shared AtomicUsize
    defer_list, \* Mutex<DeferFutureVec> of the request
    running,    \* mutation root: the future being awaited
    first,      \* what execute_first returned
    drain,      \* execute_stream: current_defer_list and new_defer_list
    stream,     \* the items execute_stream has yielded
    out,        \* what execute returned
    schema_data, \* schema.0.data: the Data the schema was built with
    builder,    \* the QueryBuilder under construction (its ctx_data)
    seen        \* per request executed: its ctx_data and what data_opt gave

vars == <<env, features, call, ret, pc, req, units, plan, values, log, resolve_id,
          defer_list, running, first, drain, stream, out, schema_data, builder,
          seen>>

ctxVars == <<env, features, call, ret>>
engVars == <<pc, req, units, plan, values, log, resolve_id, defer_list,
             running, first, drain, stream, out>>
dataVars == <<schema_data, builder, seen>>

-----------------------------------------------------------------------------
(* Bounds of the model                                                     *)

MaxDirectives == 2
MaxSelections == 2
MaxRequests == 2
MaxFields == 2
MaxMessages == 3
MaxDefinitions == 2
MaxSize == 2

-----------------------------------------------------------------------------
(* Results and values                                                      *)

Ok(v) == [ok |-> TRUE, val |-> v]
Err(k, x) == [ok |-> FALSE, err |-> [kind |-> k, name |-> x]]

None == [some |-> FALSE]
Some(v) == [some |-> TRUE, val |-> v]

\* graphql_parser::query::Value
Null == [t |-> "Null"]
Boolean(b) == [t |-> "Boolean", b |-> b]
IntValue(n) == [t |-> "Int", n |-> n]
Variable(n) == [t |-> "Variable", name |-> n]
List(s) == [t |-> "List", items |-> s]
Object(s) == [t |-> "Object", fields |-> s]
String(s) == [t |-> "String", s |-> s]

VarNames == {"x", "y"}

\* Iterator::find by name: the index of the first element of s, from i on,
\* whose name is n, or 0
RECURSIVE FindName(_, _, _)
FindName(s, n, i) ==
    IF i > Len(s) THEN 0
    ELSE IF s[i].name = n THEN i
    ELSE FindName(s, n, i + 1)

-----------------------------------------------------------------------------
(* Context: variables                                                      *)

\* var_value as it would be if the request's variables were consulted
\* without looking at the operation's variable definitions first
VarValueSuppliedFirst(e, name) ==
    LET i == FindName(e.variable_definitions, name, 1)
    IN  IF name \in DOMAIN e.variables THEN Ok(e.variables[name])
        ELSE IF i # 0 /\ e.variable_definitions[i].default_value.some
            THEN Ok(e.variable_definitions[i].default_value.val)
        ELSE Err("VarNotDefined", name)

var_value(e, name) ==
    LET i == FindName(e.variable_definitions, name, 1)
    IN  IF i = 0 THEN Err("VarNotDefined", name)
        ELSE LET def == e.variable_definitions[i] IN
             IF def.name \in DOMAIN e.variables
                 THEN Ok(e.variables[def.name])
             ELSE IF def.default_value.some
                 THEN Ok(def.default_value.val)
             ELSE Err("VarNotDefined", name)

\* The loop of resolve_input_value over the elements of a List: each
\* element that is a Variable is replaced, the first failure is returned.
RECURSIVE ResolveElements(_, _, _)
ResolveElements(e, ls, i) ==
    IF i > Len(ls) THEN Ok(ls)
    ELSE IF ls[i].t = "Variable"
        THEN LET r == var_value(e, ls[i].name) IN
             IF r.ok THEN ResolveElements(e, [ls EXCEPT ![i] = r.val], i + 1)
             ELSE r
    ELSE ResolveElements(e, ls, i + 1)

\* The same loop over the values of an Object (a sequence of [k, val]
\* entries in key order, as BTreeMap::values_mut visits them).
RECURSIVE ResolveEntries(_, _, _)
ResolveEntries(e, obj, i) ==
    IF i > Len(obj) THEN Ok(obj)
    ELSE IF obj[i].val.t = "Variable"
        THEN LET r == var_value(e, obj[i].val.name) IN
             IF r.ok
                 THEN ResolveEntries(e, [obj EXCEPT ![i].val = r.val], i + 1)
             ELSE r
    ELSE ResolveEntries(e, obj, i + 1)

\* resolve_input_value as it would be without its arm for Value::Object
ResolveInputValueListsOnly(e, value) ==
    IF value.t = "Variable" THEN var_value(e, value.name)
    ELSE IF value.t = "List"
        THEN LET r == ResolveElements(e, value.items, 1) IN
             IF r.ok THEN Ok(List(r.val)) ELSE r
    ELSE Ok(value)

\* resolve_input_value as it would be if the variables of a list inside a
\* list were replaced as well
ResolveInputValueDeep(e, value) ==
    LET Inside(v) ==
            IF v.t = "List" /\ ResolveElements(e, v.items, 1).ok
                THEN List(ResolveElements(e, v.items, 1).val)
            ELSE v
    IN  IF value.t = "Variable" THEN var_value(e, value.name)
        ELSE IF value.t = "List"
            THEN LET r == ResolveElements(e,
                              [i \in 1..Len(value.items) |-> Inside(value.items[i])], 1)
                 IN  IF r.ok THEN Ok(List(r.val)) ELSE r
        ELSE IF value.t = "Object"
            THEN LET r == ResolveEntries(e, value.fields, 1) IN
                 IF r.ok THEN Ok(Object(r.val)) ELSE r
        ELSE Ok(value)

resolve_input_value(e, value) ==
    IF value.t = "Variable" THEN var_value(e, value.name)
    ELSE IF value.t = "List"
        THEN LET r == ResolveElements(e, value.items, 1) IN
             IF r.ok THEN Ok(List(r.val)) ELSE r
    ELSE IF value.t = "Object"
        THEN LET r == ResolveEntries(e, value.fields, 1) IN
             IF r.ok THEN Ok(Object(r.val)) ELSE r
    ELSE Ok(value)

\* InputValueType::parse for the target types bool, i32 and String
parse(ty, value) ==
    IF ty = "Boolean" /\ value.t = "Boolean" THEN Some(value.b)
    ELSE IF ty = "Int" /\ value.t = "Int" THEN Some(value.n)
    ELSE IF ty = "String" /\ value.t = "String" THEN Some(value.s)
    ELSE None

qualified_type_name(ty) ==
    IF ty = "Boolean" THEN "Boolean!"
    ELSE IF ty = "String" THEN "String!"
    ELSE "Int!"

ExpectedType(ty, value) ==
    [ok |-> FALSE,
     err |-> [kind |-> "ExpectedType", expect |-> qualified_type_name(ty),
              actual |-> value]]

-----------------------------------------------------------------------------
(* Context: directives                                                     *)

RECURSIVE is_defer(_)
is_defer(directives) ==
    IF directives = <<>> THEN FALSE
    ELSE IF Head(directives).name = "defer" THEN TRUE
    ELSE is_defer(Tail(directives))

\* The `if` argument of a directive: arguments.iter().find(name == "if")
IfArgument(directive) ==
    LET i == FindName(directive.arguments, "if", 1)
    IN  IF i = 0 THEN None ELSE Some(directive.arguments[i].value)

\* The `if` value of a skip / include directive, once its variable is
\* resolved, is read as a bool: Ok(TRUE) when the directive elides the
\* selection, Ok(FALSE) to go on with the next directive.
SkipIf(value, omitWhen) ==
    IF ~value.ok THEN value
    ELSE LET res == parse("Boolean", value.val) IN
         IF ~res.some THEN ExpectedType("Boolean", value.val)
         ELSE Ok(res.val = omitWhen)

\* The body of is_skip for one skip / include directive
SkipBy(e, directive, omitWhen) ==
    LET arg == IfArgument(directive) IN
    IF ~arg.some
        THEN Err("RequiredDirectiveArgs", directive.name)
    ELSE SkipIf(resolve_input_value(e, arg.val), omitWhen)

IncludeOmitsWhenTrue(e, directive) == SkipBy(e, directive, TRUE)

IncludeDirective(e, directive) == SkipBy(e, directive, FALSE)

SkipDirective(e, directive) == SkipBy(e, directive, TRUE)

\* One turn of the loop of is_skip: the arm its directive takes
SkipArm(e, directive) ==
    IF directive.name = "skip" THEN SkipDirective(e, directive)
    ELSE IF directive.name = "include" THEN IncludeDirective(e, directive)
    ELSE Err("UnknownDirective", directive.name)

RECURSIVE is_skip(_, _)

\* `?` and `return Ok(true)` on what the arm gave, else the next directive
SkipNext(e, r, rest) ==
    IF ~r.ok THEN r
    ELSE IF r.val THEN Ok(TRUE)
    ELSE is_skip(e, rest)

is_skip(e, directives) ==
    IF directives = <<>> THEN Ok(FALSE)
    ELSE SkipNext(e, SkipArm(e, Head(directives)), Tail(directives))

-----------------------------------------------------------------------------
(* Context: field arguments                                                *)

ArgumentOf(field, name) ==
    LET i == FindName(field.arguments, name, 1)
    IN  IF i = 0 THEN None ELSE Some(field.arguments[i].value)

ParamSupplied(e, ty, value) ==
    LET r == resolve_input_value(e, value) IN
    IF ~r.ok THEN r
    ELSE LET res == parse(ty, r.val) IN
         IF res.some THEN Ok(res.val) ELSE ExpectedType(ty, r.val)

ParamDefaultIgnoresThunk(ty, default) ==
    LET res == parse(ty, Null) IN
    IF res.some THEN Ok(res.val) ELSE ExpectedType(ty, Null)

ParamDefault(ty, default) ==
    LET res == parse(ty, default) IN
    IF res.some THEN Ok(res.val) ELSE ExpectedType(ty, default)

param_value(e, field, name, ty, default) ==
    LET a == ArgumentOf(field, name) IN
    IF a.some THEN ParamSupplied(e, ty, a.val)
    ELSE ParamDefault(ty, default)

-----------------------------------------------------------------------------
(* Selections, roots and the serde_json map                                *)

Field(name, alias, directives) ==
    [kind |-> "Field", name |-> name, alias |-> alias,
     directives |-> directives, arguments |-> <<>>]

FragmentSpread(fragment_name, directives) ==
    [kind |-> "FragmentSpread", fragment_name |-> fragment_name,
     directives |-> directives]

InlineFragment(type_condition, directives, selection_set) ==
    [kind |-> "InlineFragment", type_condition |-> type_condition,
     directives |-> directives, selection_set |-> selection_set]

\* result_name as it would be if the alias were not looked at
ResultNameIgnoresAlias(field) == field.name

result_name(field) ==
    IF field.alias.some THEN field.alias.val ELSE field.name

Entry(k, v) == [k |-> k, val |-> v]

\* The keys the model uses, in the order of str's Ord (byte order)
KeyOrder == <<"__typename", "a", "b", "c", "fail", "s", "t", "x", "zz">>

KeyRank(k) == CHOOSE i \in 1..Len(KeyOrder) : KeyOrder[i] = k

\* serde_json::Map::insert. The value of an existing key is replaced where
\* it stands. A new key goes to the end when serde_json is built with
\* preserve_order (an IndexMap), to its sorted place otherwise (a BTreeMap).
RECURSIVE MapInsert(_, _)
MapInsert(map, entry) ==
    IF map = <<>> THEN <<entry>>
    ELSE IF Head(map).k = entry.k THEN <<entry>> \o Tail(map)
    ELSE IF ~features.preserve_order /\ KeyRank(entry.k) < KeyRank(Head(map).k)
        THEN <<entry>> \o map
    ELSE <<Head(map)>> \o MapInsert(Tail(map), entry)

\* serde_json::Map::from_iter
RECURSIVE MapFromIter(_, _)
MapFromIter(map, entries) ==
    IF entries = <<>> THEN map
    ELSE MapFromIter(MapInsert(map, Head(entries)), Tail(entries))

\* A root object: its type name, the interfaces the registry records for it,
\* and what each of its field resolvers returns
FieldNotFoundAt(root, field, path) ==
    [ok |-> FALSE,
     err |-> [kind |-> "FieldNotFound", field_name |-> field.name,
              object |-> root.type_name, path |-> path]]

\* Error::Query { path: None, err: FieldNotFound }
FieldNotFound(root, field) == FieldNotFoundAt(root, field, None)

\* Type::introspection_type_name: the default, and that of an interface (the
\* type name of its active variant)
introspection_type_name(root) ==
    IF root.object = "interface" THEN root.active.type_name ELSE root.type_name

Panic(what) == [panic |-> what]

IsPanic(r) == "panic" \in DOMAIN r

\* What resolving __schema with introspection enabled gives
IntrospectionSchema == String("__Schema")

\* A field of a #[SimpleObject] struct: one of its own, or one marked flatten
\* (whose type is the object inner)
OwnField(name, value) == [kind |-> "own", name |-> name, value |-> value]
FlattenField(inner) == [kind |-> "flatten", inner |-> inner]

\* A #[SimpleObject] struct, its fields in the order they are declared, and the
\* interfaces the registry has it implementing
SimpleObject(type_name, implements, fields) ==
    [object |-> "simple", type_name |-> type_name, implements |-> implements,
     fields |-> fields]

\* An #[Interface] enum holding the variant active, with the fields declared
\* for the interface
Interface(type_name, fields, active) ==
    [object |-> "interface", type_name |-> type_name, implements |-> {},
     fields |-> fields, active |-> active]

\* Type::create_type_info of a #[SimpleObject]: the names of the fields the
\* registry holds for it (fields.insert for its own, fields.extend for those
\* of a flattened object type)
RECURSIVE RegisteredFields(_)
RegisteredFieldsOf(fields, i) ==
    IF fields[i].kind = "own" THEN {fields[i].name}
    ELSE IF fields[i].inner.object = "simple"
        THEN RegisteredFields(fields[i].inner)
    ELSE {}

RegisteredFields(obj) ==
    UNION {RegisteredFieldsOf(obj.fields, i) : i \in 1..Len(obj.fields)}

RECURSIVE resolve_field(_, _)
RECURSIVE ResolveStructField(_, _, _)

\* One resolver of a #[SimpleObject]: that of a flattened field answers the
\* names registered for the inner type, that of an own field its name
StructResolver(root, decl, rest, field) ==
    IF decl.kind = "flatten"
        THEN IF decl.inner.object = "simple"
                    /\ field.name \in RegisteredFields(decl.inner)
                 THEN resolve_field(decl.inner, field)
             ELSE ResolveStructField(root, rest, field)
    ELSE IF field.name = decl.name THEN Ok(decl.value)
    ELSE ResolveStructField(root, rest, field)

\* resolve_field of a #[SimpleObject]: the resolvers in the order the fields
\* are declared, then FieldNotFound
ResolveStructField(root, fields, field) ==
    IF fields = <<>> THEN FieldNotFound(root, field)
    ELSE StructResolver(root, Head(fields), Tail(fields), field)

\* resolve_field of an #[Interface]: a field declared for the interface is
\* resolved by the active variant
ResolveInterfaceField(root, field) ==
    IF field.name \in root.fields THEN resolve_field(root.active, field)
    ELSE FieldNotFound(root, field)

\* resolve_field of an object the user defines: FieldNotFound for a name
\* that is not one of its fields
ResolveFieldInner(root, field) ==
    IF field.name \in DOMAIN root.resolvers THEN root.resolvers[field.name]
    ELSE FieldNotFound(root, field)

\* A QueryRoot that hands every field, __schema included, to its inner object
ResolveFieldWithoutSchemaArm(root, field) == ResolveFieldInner(root, field)

\* The names of the types the registry of the schema holds
RegistryTypes == {"Query", "Mutation", "Int"}

\* What resolving a __Type, the _Service and no entities gives
IntrospectionType(name) == Object(<<Entry("name", String(name))>>)
FederationService == Object(<<Entry("sdl", String("sdl"))>>)

\* The __type arm as it would be if it were closed with introspection disabled
ResolveTypeGuarded(root, field, name) ==
    IF root.disable_introspection
        THEN FieldNotFoundAt(root, field, Some(<<result_name(field)>>))
    ELSE IF ~name.ok THEN name
    ELSE IF name.val \in RegistryTypes THEN Ok(IntrospectionType(name.val))
    ELSE Ok(Null)

\* The __type arm of QueryRoot::resolve_field, param_value having answered
\* name: the type the registry holds under that name, or null
ResolveType(root, field, name) ==
    IF ~name.ok THEN name
    ELSE IF name.val \in RegistryTypes THEN Ok(IntrospectionType(name.val))
    ELSE Ok(Null)

\* The _entities arm for no representations: the loop visits nothing
ResolveEntities(representations) ==
    IF representations = Some(List(<<>>)) THEN Ok(List(<<>>))
    ELSE [ok |-> FALSE,
          err |-> [kind |-> "ExpectedType", expect |-> "[_Any!]!",
                   actual |-> IF representations.some THEN representations.val
                              ELSE Null]]

\* ObjectType::resolve_field of QueryRoot<T> (its __schema, __type, _entities
\* and _service arms, then the inner object), of EmptyMutation, of a
\* #[SimpleObject], of an #[Interface] and of an object the user defines
resolve_field(root, field) ==
    IF root.object = "EmptyMutation" THEN Panic("unreachable")
    ELSE IF root.object = "simple"
        THEN ResolveStructField(root, root.fields, field)
    ELSE IF root.object = "interface" THEN ResolveInterfaceField(root, field)
    ELSE IF root.object = "QueryRoot" /\ field.name = "__schema"
        THEN IF root.disable_introspection
                 THEN FieldNotFoundAt(root, field, Some(<<result_name(field)>>))
             ELSE Ok(IntrospectionSchema)
    ELSE IF root.object = "QueryRoot" /\ field.name = "__type"
        THEN ResolveType(root, field, param_value(env, field, "name", "String", Null))
    ELSE IF root.object = "QueryRoot" /\ field.name = "_entities"
        THEN ResolveEntities(ArgumentOf(field, "representations"))
    ELSE IF root.object = "QueryRoot" /\ field.name = "_service"
        THEN Ok(FederationService)
    ELSE ResolveFieldInner(root, field)

\* registry.types.get(T::type_name()).and_then(|ty| ty.field_by_name(name));
\* QueryRoot::create_type_info adds __schema and __type to the fields of the
\* query type
field_by_name(root, name) ==
    IF root.object = "simple" THEN name \in RegisteredFields(root)
    ELSE IF root.object = "interface" THEN name \in root.fields
    ELSE \/ name \in DOMAIN root.resolvers
         \/ root.object = "QueryRoot" /\ name \in {"__schema", "__type"}

MustHaveSubFields(root) ==
    [ok |-> FALSE,
     err |-> [kind |-> "MustHaveSubFields", object |-> root.type_name,
              path |-> None]]

UnknownFragment(name) ==
    [ok |-> FALSE,
     err |-> [kind |-> "UnknownFragment", fragment |-> name, path |-> None]]

-----------------------------------------------------------------------------
(* resolver.rs: collect_fields                                             *)

ReadyFuture(entry) == [fut |-> "ready", entry |-> entry]
FieldFuture(root, field) == [fut |-> "field", root |-> root, field |-> field]

\* The future collect_fields pushes for a field that is not elided
FutureOf(root, field) ==
    IF field.name = "__typename"
        THEN ReadyFuture(Entry(result_name(field),
                               String(introspection_type_name(root))))
    ELSE FieldFuture(root, field)

\* A nested call of collect_fields: MustHaveSubFields for an empty selection
\* set, otherwise its selections are visited before those that follow
EnterSelectionSet(root, selection_set, rest) ==
    IF selection_set = <<>> THEN MustHaveSubFields(root)
    ELSE Ok(selection_set \o rest)

RECURSIVE collect_inline_fields(_, _, _, _, _)

Collected(work, futures) == Ok([work |-> work, futures |-> futures])

\* The selection set a fragment spread, or an inline fragment without a type
\* condition, enters
FragmentWork(e, root, selection, rest) ==
    IF selection.kind = "FragmentSpread"
        THEN IF selection.fragment_name \in DOMAIN e.fragments
                 THEN EnterSelectionSet(root, e.fragments[selection.fragment_name],
                                        rest)
             ELSE UnknownFragment(selection.fragment_name)
    ELSE EnterSelectionSet(root, selection.selection_set, rest)

\* root.collect_inline_fields(name, .., futures)? has returned r
CollectInline(rest, r) ==
    IF r.ok THEN Collected(rest, r.val) ELSE r

CollectFragment(work, futures) ==
    IF work.ok THEN Collected(work.val, futures) ELSE work

\* One turn of the loop as it would be if a selection whose directives are
\* refused were passed over and collection went on
CollectSelectionPastError(e, root, selection, rest, futures, skip) ==
    IF ~skip.ok THEN Collected(rest, futures)
    ELSE IF skip.val THEN Collected(rest, futures)
    ELSE IF selection.kind = "Field"
        THEN Collected(rest, Append(futures, FutureOf(root, selection)))
    ELSE IF selection.kind = "InlineFragment" /\ selection.type_condition.some
        THEN CollectInline(rest,
                 collect_inline_fields(e, root, selection.type_condition.val,
                                       selection.selection_set, futures))
    ELSE CollectFragment(FragmentWork(e, root, selection, rest), futures)

\* One turn of the loop of collect_fields, is_skip having answered skip: the
\* selections still to visit and the futures after the selection
CollectSelection(e, root, selection, rest, futures, skip) ==
    IF ~skip.ok THEN skip
    ELSE IF skip.val THEN Collected(rest, futures)
    ELSE IF selection.kind = "Field"
        THEN Collected(rest, Append(futures, FutureOf(root, selection)))
    ELSE IF selection.kind = "InlineFragment" /\ selection.type_condition.some
        THEN CollectInline(rest,
                 collect_inline_fields(e, root, selection.type_condition.val,
                                       selection.selection_set, futures))
    ELSE CollectFragment(FragmentWork(e, root, selection, rest), futures)

RECURSIVE CollectSelections(_, _, _, _)

CollectNext(e, root, r) ==
    IF r.ok THEN CollectSelections(e, root, r.val.work, r.val.futures) ELSE r

\* The loop of collect_fields over the selections still to visit
CollectSelections(e, root, work, futures) ==
    IF work = <<>> THEN Ok(futures)
    ELSE CollectNext(e, root,
             CollectSelection(e, root, Head(work), Tail(work), futures,
                              is_skip(e, Head(work).directives)))

collect_fields(e, root, selection_set, futures) ==
    LET work == EnterSelectionSet(root, selection_set, <<>>) IN
    IF work.ok THEN CollectSelections(e, root, work.val, futures) ELSE work

\* collect_inline_fields as it would be if an interface did not forward to
\* its active variant
CollectInlineFieldsOfSelf(e, root, name, selection_set, futures) ==
    IF name = root.type_name \/ name \in root.implements
        THEN collect_fields(e, root, selection_set, futures)
    ELSE Ok(futures)

\* ObjectType::collect_inline_fields: an interface forwards to its active
\* variant; the default of an object type collects the fields on itself when
\* name is its type name or an interface it is registered as implementing
collect_inline_fields(e, root, name, selection_set, futures) ==
    IF root.object = "interface"
        THEN collect_inline_fields(e, root.active, name, selection_set, futures)
    ELSE IF name = root.type_name \/ name \in root.implements
        THEN collect_fields(e, root, selection_set, futures)
    ELSE Ok(futures)

-----------------------------------------------------------------------------
(* The inputs the context operations are applied to                        *)

Directive(n, args) == [name |-> n, arguments |-> args]
Argument(n, v) == [name |-> n, value |-> v]

DirectiveArgs ==
    {Boolean(TRUE), Boolean(FALSE), Variable("x"), Variable("y"), IntValue(1)}

Directives ==
    {Directive(n, <<>>) : n \in {"skip", "include", "defer", "foo"}}
    \cup {Directive(n, <<Argument("if", a)>>) :
              n \in {"skip", "include"}, a \in DirectiveArgs}

SeqsUpTo(S, n) == UNION {[1..k -> S] : k \in 0..n}

DirectiveLists == SeqsUpTo(Directives, MaxDirectives)

VariableDefinition(n, d) == [name |-> n, default_value |-> d]

\* The operation's variable definitions: each name undeclared, declared, or
\* declared with a default
DefinitionLists ==
    LET Choice(n) == {<<>>, <<VariableDefinition(n, None)>>,
                      <<VariableDefinition(n, Some(Boolean(TRUE)))>>}
    IN  {a \o b : a \in Choice("x"), b \in Choice("y")}

\* The request's variables: each name absent or holding a boolean
VariableMaps == UNION {[S -> {Boolean(TRUE), Boolean(FALSE)}] : S \in SUBSET VarNames}

NoFragments == [n \in {} |-> <<>>]

Environments ==
    [variables : VariableMaps, variable_definitions : DefinitionLists,
     fragments : {NoFragments}]

MaxArguments == 2

ArgumentLists ==
    SeqsUpTo({Argument(n, v) : n \in {"a", "b"},
                  v \in {IntValue(1), Boolean(TRUE), Variable("x")}}, MaxArguments)

Defaults == {Null, IntValue(7), Boolean(FALSE)}

NoCall == [op |-> "none"]

-----------------------------------------------------------------------------
(* Context data: Data, QueryBuilder::data, ContextBase::data_opt           *)

\* The types D whose values are attached, and the values
TypeIds == {"Hello", "Token"}
SchemaValues == {"schema"}
RequestValues == {"first", "second"}

\* Data::default: no value of any type
DataDefault == [D \in TypeIds |-> None]

\* Data::insert: the value is kept under TypeId::of::<D>()
DataInsert(data, D, value) == [data EXCEPT ![D] = Some(value)]

\* Data::get(&TypeId::of::<D>())
DataGet(data, D) == data[D]

\* d.downcast_ref::<D>() of a value kept under TypeId::of::<D>()
downcast_ref(D, d) == Some(d)

\* data_opt as it would be if the schema's data were looked at first
DataOptSchemaFirst(ctx_data, data, D) ==
    IF DataGet(data, D).some THEN downcast_ref(D, DataGet(data, D).val)
    ELSE IF DataGet(ctx_data, D).some
        THEN downcast_ref(D, DataGet(ctx_data, D).val)
    ELSE None

\* ContextBase::data_opt: env.ctx_data.get(..).or_else(|| data.get(..))
\*                           .and_then(|d| d.downcast_ref::<D>())
data_opt(ctx_data, data, D) ==
    IF DataGet(ctx_data, D).some THEN downcast_ref(D, DataGet(ctx_data, D).val)
    ELSE IF DataGet(data, D).some THEN downcast_ref(D, DataGet(data, D).val)
    ELSE None

\* self.ctx_data.unwrap_or_default()
unwrap_or_default(ctx_data) == IF ctx_data.some THEN ctx_data.val ELSE DataDefault

\* No QueryBuilder, no request executed yet
DataIdle ==
    /\ builder = NoCall
    /\ seen = <<>>

\* QueryBuilder::new: ctx_data is None
QueryBuilderNew ==
    /\ builder = NoCall
    /\ Len(seen) < MaxRequests
    /\ builder' = [ctx_data |-> None]
    /\ UNCHANGED <<ctxVars, engVars, schema_data, seen>>

\* QueryBuilder::data: insert into ctx_data, created when it is None
QueryBuilderData ==
    /\ builder # NoCall
    /\ \E D \in TypeIds, value \in RequestValues :
          builder' = [ctx_data |->
                         Some(DataInsert(unwrap_or_default(builder.ctx_data),
                                         D, value))]
    /\ UNCHANGED <<ctxVars, engVars, schema_data, seen>>

\* The builder is executed: execute_first moves its ctx_data into the
\* Environment, and a resolver calls ctx.data_opt::<D>()
ExecuteDataOpt ==
    /\ builder # NoCall
    /\ \E D \in TypeIds :
          seen' = Append(seen,
                      [ctx_data |-> builder.ctx_data, D |-> D,
                       got |-> data_opt(unwrap_or_default(builder.ctx_data),
                                        schema_data, D)])
    /\ builder' = NoCall
    /\ UNCHANGED <<ctxVars, engVars, schema_data>>

-----------------------------------------------------------------------------
(* The context operations, applied to drawn inputs                         *)

CallVarValue ==
    /\ call = NoCall
    /\ \E name \in VarNames :
          /\ call' = [op |-> "var_value", name |-> name]
          /\ ret' = var_value(env, name)
    /\ UNCHANGED <<env, features, engVars, dataVars>>

CallIsSkip ==
    /\ call = NoCall
    /\ \E directives \in DirectiveLists :
          /\ call' = [op |-> "is_skip", directives |-> directives]
          /\ ret' = is_skip(env, directives)
    /\ UNCHANGED <<env, features, engVars, dataVars>>

\* `arg` is a way of writing the boolean b in the environment e: the literal,
\* or a declared variable the request supplies with b
Writes(e, arg, b) ==
    \/ arg = Boolean(b)
    \/ /\ arg.t = "Variable"
       /\ \E i \in 1..Len(e.variable_definitions) :
              e.variable_definitions[i].name = arg.name
       /\ arg.name \in DOMAIN e.variables
       /\ e.variables[arg.name] = Boolean(b)

\* is_skip applied to [@skip(if: v)] and to [@include(if: not v)]
CallSkipInclude ==
    /\ call = NoCall
    /\ \E b \in BOOLEAN, s \in DirectiveArgs, i \in DirectiveArgs :
          /\ Writes(env, s, b)
          /\ Writes(env, i, ~b)
          /\ call' = [op |-> "skip_include", v |-> b, skip |-> s, include |-> i]
          /\ ret' = [skip |-> is_skip(env, <<Directive("skip", <<Argument("if", s)>>)>>),
                     include |-> is_skip(env, <<Directive("include", <<Argument("if", i)>>)>>)]
    /\ UNCHANGED <<env, features, engVars, dataVars>>

CallParamValue ==
    /\ call = NoCall
    /\ \E arguments \in ArgumentLists, name \in {"a", "b"},
          ty \in {"Int", "Boolean"}, default \in Defaults :
          /\ call' = [op |-> "param_value", arguments |-> arguments,
                      name |-> name, ty |-> ty, default |-> default]
          /\ ret' = param_value(env, [arguments |-> arguments], name, ty, default)
    /\ UNCHANGED <<env, features, engVars, dataVars>>

MaxElements == 2

\* Values without a list or an object in them
Leaves == {IntValue(1), Variable("x"), Variable("y")}

\* What a list or an object may hold: a leaf, or a list or an object of one
Elements ==
    Leaves \cup {List(<<v>>) : v \in Leaves}
           \cup {Object(<<Entry("a", v)>>) : v \in Leaves}

\* The values of arguments: up to three levels, variables at each of them
InputValues ==
    Leaves
    \cup {List(ls) : ls \in SeqsUpTo(Elements, MaxElements)}
    \cup {Object(<<>>)}
    \cup {Object(<<Entry(k, v)>>) : k \in {"a", "b"}, v \in Elements}
    \cup {Object(<<Entry("a", v), Entry("b", w)>>) : v \in Elements, w \in Elements}

CallResolveInputValue ==
    /\ call = NoCall
    /\ \E value \in InputValues :
          /\ call' = [op |-> "resolve_input_value", value |-> value]
          /\ ret' = resolve_input_value(env, value)
    /\ UNCHANGED <<env, features, engVars, dataVars>>

EngineIdle ==
    /\ features \in [preserve_order : BOOLEAN]
    /\ pc = "idle"
    /\ req = NoCall
    /\ units = <<>>
    /\ plan = <<>>
    /\ values = <<>>
    /\ log = <<>>
    /\ resolve_id = 0
    /\ defer_list = <<>>
    /\ running = NoCall
    /\ first = NoCall
    /\ drain = [current |-> <<>>, new |-> <<>>]
    /\ stream = <<>>
    /\ out = NoCall

InitCtx ==
    /\ env \in Environments
    /\ call = NoCall
    /\ ret = NoCall
    /\ EngineIdle
    /\ schema_data = DataDefault
    /\ DataIdle

NextCtx ==
    \/ CallVarValue
    \/ CallIsSkip
    \/ CallSkipInclude
    \/ CallParamValue

SpecCtx == InitCtx /\ [][NextCtx]_vars

NextInput ==
    \/ CallResolveInputValue

SpecInput == InitCtx /\ [][NextInput]_vars

-----------------------------------------------------------------------------
(* context.rs: Variables (set_upload, parse_from_json)                     *)

MaxSegments == 3

\* A segment of var_path.split('.'): s.parse::<i32>() succeeds on an Index
\* and fails on a Name
Name(s) == [seg |-> "Name", s |-> s]
Index(i) == [seg |-> "Index", idx |-> i]

\* file_string as it would be if the content type were never written
FileStringWithoutType(filename, content_type, path) ==
    "file:" \o filename \o "|" \o path

file_string(filename, content_type, path) ==
    IF content_type.some
        THEN "file:" \o filename \o ":" \o content_type.val \o "|" \o path
    ELSE "file:" \o filename \o "|" \o path

\* BTreeMap::get_mut: the place of key k among the entries, or 0
RECURSIVE FindKey(_, _, _)
FindKey(obj, k, i) ==
    IF i > Len(obj) THEN 0
    ELSE IF obj[i].k = k THEN i
    ELSE FindKey(obj, k, i + 1)

\* The loop of set_upload: `current` with the upload written where the
\* segments lead. A segment that parses as i32 at a value that is not a
\* List, and one that does not at a value that is not an Object, match no
\* branch: the loop goes on to the next segment with the same `current`.
RECURSIVE UploadAt(_, _, _)
UploadAt(current, segments, file) ==
    IF segments = <<>> THEN current
    ELSE IF Head(segments).seg = "Index"
        THEN IF current.t = "List"
                 THEN IF Head(segments).idx \in 0..(Len(current.items) - 1)
                          THEN IF Len(segments) = 1
                                   THEN [current EXCEPT
                                            !.items[Head(segments).idx + 1] = file]
                               ELSE [current EXCEPT
                                        !.items[Head(segments).idx + 1] =
                                            UploadAt(@, Tail(segments), file)]
                      ELSE current
             ELSE UploadAt(current, Tail(segments), file)
    ELSE IF current.t = "Object"
        THEN IF FindKey(current.fields, Head(segments).s, 1) # 0
                 THEN IF Len(segments) = 1
                          THEN [current EXCEPT
                                   !.fields[FindKey(current.fields,
                                                    Head(segments).s, 1)].val = file]
                      ELSE [current EXCEPT
                               !.fields[FindKey(current.fields,
                                                Head(segments).s, 1)].val =
                                   UploadAt(@, Tail(segments), file)]
             ELSE current
    ELSE UploadAt(current, Tail(segments), file)

\* set_upload as it would be if a path of `variables` alone wrote the upload
\* over self.0
SetUploadOverRoot(variables, var_path, filename, content_type, path) ==
    IF Head(var_path) # Name("variables") THEN variables
    ELSE IF Tail(var_path) = <<>>
        THEN String(file_string(filename, content_type, path))
    ELSE UploadAt(variables, Tail(var_path),
                  String(file_string(filename, content_type, path)))

\* Variables::set_upload: the variables afterwards
set_upload(variables, var_path, filename, content_type, path) ==
    IF Head(var_path) # Name("variables") THEN variables
    ELSE UploadAt(variables, Tail(var_path),
                  String(file_string(filename, content_type, path)))

\* serde_json::Number: PosInt(u64), NegInt(i64, negative) or Float(f64). The
\* 64 bits of an integer are written as four 16-bit limbs, most significant
\* first (two's complement for NegInt).
LimbBase == 65536
SignLimb == 32768

PosInt(limbs) == [n |-> "PosInt", limbs |-> limbs]
NegInt(limbs) == [n |-> "NegInt", limbs |-> limbs]
FloatNumber(f) == [n |-> "Float", f |-> f]

JsonNull == [j |-> "Null"]
JsonBool(b) == [j |-> "Bool", b |-> b]
JsonNumber(n) == [j |-> "Number", n |-> n]
JsonString(s) == [j |-> "String", s |-> s]
JsonArray(ls) == [j |-> "Array", items |-> ls]
JsonObject(obj) == [j |-> "Object", fields |-> obj]

Float(f) == [t |-> "Float", f |-> f]

\* Number::as_i64: None for a PosInt above i64::MAX
as_i64(n) ==
    IF n.n = "PosInt" /\ n.limbs[1] >= SignLimb THEN None ELSE Some(n.limbs)

\* `as i32` on an i64: its low 32 bits, read as a signed value
as_i32(limbs) ==
    IF limbs[3] >= SignLimb
        THEN (limbs[3] - LimbBase) * LimbBase + limbs[4]
    ELSE limbs[3] * LimbBase + limbs[4]

\* Option::unwrap
Unwrapped(o) ==
    IF o.some THEN IntValue(as_i32(o.val))
    ELSE Panic("called Option::unwrap() on a None value")

\* A panic while an element is converted unwinds through the conversion of
\* the whole value
Panicked(s) == \E i \in 1..Len(s) : IsPanic(s[i])

FirstPanic(s) ==
    s[CHOOSE i \in 1..Len(s) : IsPanic(s[i]) /\ \A j \in 1..(i - 1) : ~IsPanic(s[j])]

RECURSIVE json_value_to_gql_value(_)

ConvertedItems(ls) == [i \in 1..Len(ls) |-> json_value_to_gql_value(ls[i])]

ConvertedFields(obj) == [i \in 1..Len(obj) |-> json_value_to_gql_value(obj[i].val)]

Collect_List(items) == IF Panicked(items) THEN FirstPanic(items) ELSE List(items)

Collect_Object(obj, vals) ==
    IF Panicked(vals) THEN FirstPanic(vals)
    ELSE Object([i \in 1..Len(obj) |-> Entry(obj[i].k, vals[i])])

json_value_to_gql_value(value) ==
    IF value.j = "Null" THEN Null
    ELSE IF value.j = "Bool" THEN Boolean(value.b)
    ELSE IF value.j = "Number"
        THEN IF value.n.n = "Float" THEN Float(value.n.f)
             ELSE Unwrapped(as_i64(value.n))
    ELSE IF value.j = "String" THEN String(value.s)
    ELSE IF value.j = "Array" THEN Collect_List(ConvertedItems(value.items))
    ELSE Collect_Object(value.fields, ConvertedFields(value.fields))

\* Variables::default
DefaultVariables == Object(<<>>)

\* unreachable!()
Unreachable == Panic("internal error: entered unreachable code")

\* Deref / DerefMut for Variables: the BTreeMap of self.0
deref(variables) ==
    IF variables.t = "Object" THEN [target |-> variables.fields] ELSE Unreachable

ParsedVariables(gql_value) ==
    IF IsPanic(gql_value) THEN gql_value
    ELSE IF gql_value.t = "Object" THEN Ok(gql_value)
    ELSE Ok(DefaultVariables)

\* Variables::parse_from_json
parse_from_json(value) == ParsedVariables(json_value_to_gql_value(value))

\* The variables set_upload is applied to (entries in key order)
VariableTrees ==
    {Object(<<Entry("a", Object(<<Entry("b", IntValue(1))>>)), Entry("f", Null)>>),
     Object(<<Entry("a", List(<<Null, Object(<<Entry("b", Null)>>)>>)),
              Entry("f", Null)>>)}

LaterSegments ==
    {Name("a"), Name("b"), Name("f"), Name("x"),
     Index(0), Index(1), Index(2), Index(-1)}

UploadPaths ==
    {<<head>> \o rest : head \in {Name("variables"), Name("a")},
                        rest \in SeqsUpTo(LaterSegments, MaxSegments)}

Limbs == {0, 1, SignLimb - 1, SignLimb, LimbBase - 1}

JsonNumbers ==
    {PosInt(l) : l \in [1..4 -> Limbs]}
        \cup {NegInt(l) : l \in {m \in [1..4 -> Limbs] : m[1] >= SignLimb}}
        \cup {FloatNumber("1.5")}

JsonDocuments ==
    {JsonObject(<<Entry("n", JsonNumber(n))>>) : n \in JsonNumbers}
        \cup {JsonObject(<<Entry("n", JsonArray(<<JsonNull, JsonNumber(n)>>))>>) :
                 n \in JsonNumbers}
        \cup {JsonNumber(n) : n \in JsonNumbers}
        \cup {JsonObject(<<Entry("b", JsonBool(TRUE)), Entry("s", JsonString("s"))>>)}

CallSetUpload ==
    /\ call = NoCall
    /\ \E variables \in VariableTrees, var_path \in UploadPaths,
          content_type \in {None, Some("text/plain")} :
          /\ call' = [op |-> "set_upload", variables |-> variables,
                      var_path |-> var_path, filename |-> "f.txt",
                      content_type |-> content_type, path |-> "/tmp/u"]
          /\ ret' = set_upload(variables, var_path, "f.txt", content_type, "/tmp/u")
    /\ UNCHANGED <<env, features, engVars, dataVars>>

CallParseFromJson ==
    /\ call = NoCall
    /\ \E value \in JsonDocuments :
          /\ call' = [op |-> "parse_from_json", value |-> value]
          /\ ret' = parse_from_json(value)
    /\ UNCHANGED <<env, features, engVars, dataVars>>

\* A Variables value over its life: built by Variables::default or
\* Variables::parse_from_json, then changed by set_upload any number of
\* times. ret holds the value (self.0), call the operation applied last. A
\* panic of parse_from_json leaves no value; the next one is built afresh.
MaxHeldSegments == 2

JsonRoots ==
    {JsonNull, JsonBool(TRUE), JsonString("s"),
     JsonNumber(PosInt(<<0, 0, 0, 1>>)),
     JsonNumber(PosInt(<<SignLimb, 0, 0, 0>>)),
     JsonArray(<<JsonNull>>),
     JsonObject(<<>>),
     JsonObject(<<Entry("a", JsonObject(<<Entry("b", JsonNumber(PosInt(<<0, 0, 0, 1>>)))>>)),
                  Entry("f", JsonNull)>>),
     JsonObject(<<Entry("a", JsonArray(<<JsonNull, JsonObject(<<Entry("b", JsonNull)>>)>>)),
                  Entry("f", JsonNull)>>),
     JsonObject(<<Entry("n", JsonNumber(PosInt(<<SignLimb, 0, 0, 0>>)))>>)}

HeldPaths ==
    {<<head>> \o rest : head \in {Name("variables"), Name("a")},
                        rest \in SeqsUpTo(LaterSegments, MaxHeldSegments)}

\* Something has been built and it did not panic
HoldsVariables == call # NoCall /\ ~IsPanic(ret)

Held(parsed) == IF IsPanic(parsed) THEN parsed ELSE parsed.val

VariablesDefault ==
    /\ call' = [op |-> "default"]
    /\ ret' = DefaultVariables
    /\ UNCHANGED <<env, features, engVars, dataVars>>

VariablesParseFromJson ==
    /\ \E value \in JsonRoots :
          /\ call' = [op |-> "parse_from_json", value |-> value]
          /\ ret' = Held(parse_from_json(value))
    /\ UNCHANGED <<env, features, engVars, dataVars>>

VariablesSetUpload ==
    /\ HoldsVariables
    /\ \E var_path \in HeldPaths, content_type \in {None, Some("text/plain")} :
          /\ call' = [op |-> "set_upload", variables |-> ret,
                      var_path |-> var_path, filename |-> "f.txt",
                      content_type |-> content_type, path |-> "/tmp/u"]
          /\ ret' = set_upload(ret, var_path, "f.txt", content_type, "/tmp/u")
    /\ UNCHANGED <<env, features, engVars, dataVars>>

-----------------------------------------------------------------------------
(* The schema and the requests executed against it                         *)

Resolvers ==
    [n \in {"a", "b", "c", "fail"} |->
        IF n = "a" THEN Ok(IntValue(1))
        ELSE IF n = "b" THEN Ok(IntValue(2))
        ELSE IF n = "c" THEN Ok(IntValue(3))
        ELSE Err("ResolverError", n)]

\* An object the user defines
UserObject(type_name) ==
    [object |-> "user", type_name |-> type_name, implements |-> {},
     resolvers |-> Resolvers, disable_introspection |-> FALSE]

\* QueryRoot { inner, disable_introspection }: type_name is the inner's
QueryRoot(inner, disable_introspection) ==
    [inner EXCEPT !.object = "QueryRoot",
                  !.disable_introspection = disable_introspection]

EmptyMutation ==
    [object |-> "EmptyMutation", type_name |-> "EmptyMutation", implements |-> {},
     resolvers |-> [n \in {} |-> Null], disable_introspection |-> FALSE]

\* The schema the request is executed against
Schema ==
    [query |-> QueryRoot(UserObject("Query"), req.disable_introspection),
     mutation |-> IF req.empty_mutation THEN EmptyMutation
                  ELSE UserObject("Mutation")]

Fragments ==
    [n \in {"F"} |-> <<Field("a", None, <<>>), Field("__typename", None, <<>>)>>]

RequestEnvironment ==
    [variables |-> [n \in {"x"} |-> Boolean(TRUE)],
     variable_definitions |-> <<VariableDefinition("x", None)>>,
     fragments |-> Fragments]

Selections ==
    {Field("a", None, <<>>),
     Field("b", Some("x"), <<>>),
     Field("a", None, <<Directive("skip", <<Argument("if", Variable("x"))>>)>>),
     Field("c", None, <<Directive("defer", <<>>)>>),
     Field("__typename", Some("t"), <<>>),
     Field("fail", None, <<>>),
     Field("zz", None, <<>>),
     Field("__schema", Some("s"), <<>>),
     FragmentSpread("F", <<>>),
     FragmentSpread("G", <<>>),
     InlineFragment(None, <<>>, <<Field("c", None, <<>>)>>),
     InlineFragment(Some("Query"), <<>>, <<Field("c", None, <<>>)>>),
     InlineFragment(Some("Mutation"), <<>>, <<Field("c", None, <<>>)>>)}

\* What check_rules reports for the requests below, and a schema without limits
Unchecked == [complexity |-> 1, depth |-> 1]
NoLimits == [complexity |-> None, depth |-> None]

\* A request and the options of the schema it is executed against; the
\* option the operation cannot observe is left off (a query does not reach
\* the mutation root, a mutation does not reach the QueryRoot)
Requests ==
    {r \in [caller : {"execute", "execute_stream"}, is_query : BOOLEAN,
            extensions : BOOLEAN,
            selection_set : SeqsUpTo(Selections, MaxSelections) \ {<<>>},
            disable_introspection : BOOLEAN, empty_mutation : BOOLEAN,
            check : {Unchecked}, limits : {NoLimits}] :
        IF r.is_query THEN ~r.empty_mutation ELSE ~r.disable_introspection}

\* The complexity and the depth check_rules reports, and the limits a schema
\* sets
Sizes == 1..MaxSize

CheckResults == [complexity : Sizes, depth : Sizes]

SchemaLimits ==
    [complexity : {None} \cup {Some(n) : n \in Sizes},
     depth : {None} \cup {Some(n) : n \in Sizes}]

\* Queries of one field against schemas with limits
LimitedRequests ==
    [caller : {"execute", "execute_stream"}, is_query : {TRUE},
     extensions : BOOLEAN, selection_set : {<<Field("a", None, <<>>)>>},
     disable_introspection : {FALSE}, empty_mutation : {FALSE},
     check : CheckResults, limits : SchemaLimits]

Event(e) == [ev |-> e]
ResolveEvent(e, id) == [ev |-> e, id |-> id]
ResolverEvent(e, field) == [ev |-> e, field |-> field.name]

QueryResponse(path, data) == [path |-> path, data |-> data]

-----------------------------------------------------------------------------
(* query.rs: QueryBuilder::execute and execute_first                       *)

\* An error that would leave execute_first with a response
FailsWithData(e) ==
    /\ first' = Ok([resp |-> [path |-> None, data |-> Null], defer_list |-> <<>>])
    /\ pc' = "first_done"

\* `?`: the error is what execute_first returns
Fails(e) ==
    /\ first' = e
    /\ pc' = "first_done"

TooComplex == [ok |-> FALSE, err |-> [kind |-> "TooComplex"]]
TooDeep == [ok |-> FALSE, err |-> [kind |-> "TooDeep"]]

\* check_limit as it would be if a value equal to its limit were refused
CheckLimitInclusive(check, limits) ==
    IF limits.complexity.some /\ check.complexity >= limits.complexity.val
        THEN TooComplex
    ELSE IF limits.depth.some /\ check.depth >= limits.depth.val THEN TooDeep
    ELSE Ok(TRUE)

\* execute_first, `// check limit`: the complexity, then the depth
check_limit(check, limits) ==
    IF limits.complexity.some /\ check.complexity > limits.complexity.val
        THEN TooComplex
    ELSE IF limits.depth.some /\ check.depth > limits.depth.val THEN TooDeep
    ELSE Ok(TRUE)

\* execute_first up to the environment: the limits are checked on what
\* check_rules reported, then the environment is built
Checked(r, limit) ==
    /\ req' = r
    /\ env' = RequestEnvironment
    /\ IF limit.ok THEN pc' = "execute_first" /\ UNCHANGED first
       ELSE Fails(limit)
    /\ UNCHANGED <<dataVars, features, call, ret, units, plan, values, log, resolve_id,
                   defer_list, running, drain, stream, out>>

\* execute is called with a request
Execute ==
    /\ pc = "idle"
    /\ \E r \in Requests : Checked(r, check_limit(r.check, r.limits))

\* execute is called with a query against a schema with limits
ExecuteLimited ==
    /\ pc = "idle"
    /\ \E r \in LimitedRequests : Checked(r, check_limit(r.check, r.limits))

\* The selections of the mutations: fields that resolve, that fail, that carry
\* a directive is_skip refuses, an absent fragment, and inline fragments with
\* a failing selection after a field
MutationSelections ==
    {Field("a", None, <<>>),
     Field("b", Some("x"), <<>>),
     Field("fail", None, <<>>),
     Field("c", None, <<Directive("defer", <<>>)>>),
     FragmentSpread("G", <<>>),
     InlineFragment(Some("Mutation"), <<>>,
                    <<Field("a", None, <<>>), FragmentSpread("G", <<>>)>>),
     InlineFragment(Some("Mutation"), <<>>,
                    <<Field("c", None, <<>>), Field("fail", None, <<>>)>>),
     InlineFragment(None, <<>>,
                    <<Field("c", None, <<>>), FragmentSpread("G", <<>>)>>)}

MutationRequests ==
    [caller : {"execute", "execute_stream"}, is_query : {FALSE},
     extensions : BOOLEAN,
     selection_set : SeqsUpTo(MutationSelections, MaxSelections) \ {<<>>},
     disable_introspection : {FALSE}, empty_mutation : {FALSE},
     check : {Unchecked}, limits : {NoLimits}]

\* What parse_query and check_rules may answer with
ParseError == [ok |-> FALSE, err |-> [kind |-> "Parse"]]
RuleError == [ok |-> FALSE, err |-> [kind |-> "Rule"]]

\* The requests whose source may fail to parse and whose document may fail
\* the rules, against schemas with and without limits
PhaseRequests ==
    [caller : {"execute", "execute_stream"}, is_query : BOOLEAN,
     extensions : BOOLEAN,
     selection_set : SeqsUpTo({Field("a", None, <<>>), Field("fail", None, <<>>),
                               FragmentSpread("G", <<>>)}, MaxSelections) \ {<<>>},
     disable_introspection : {FALSE}, empty_mutation : {FALSE},
     check : {Unchecked, [complexity |-> MaxSize, depth |-> 1]},
     limits : {NoLimits, [complexity |-> Some(1), depth |-> None]},
     parsed : BOOLEAN, valid : BOOLEAN]

\* The parse and validation callbacks as they would fire if the end of a
\* phase were reported whether or not the phase failed
PhaseEventsEndAlways(extensions, parsed, valid) ==
    IF ~extensions THEN <<>>
    ELSE IF ~parsed THEN <<Event("parse_start"), Event("parse_end")>>
    ELSE <<Event("parse_start"), Event("parse_end"),
           Event("validation_start"), Event("validation_end")>>

\* execute_first, `// parse query source` and `// check rules`: the callbacks
\* fired up to the `?` that returns the error of parse_query or check_rules
PhaseEvents(extensions, parsed, valid) ==
    IF ~extensions THEN <<>>
    ELSE IF ~parsed THEN <<Event("parse_start")>>
    ELSE IF ~valid
        THEN <<Event("parse_start"), Event("parse_end"), Event("validation_start")>>
    ELSE <<Event("parse_start"), Event("parse_end"),
           Event("validation_start"), Event("validation_end")>>

\* execute_first from its beginning up to the environment
Phased(r, limit) ==
    /\ req' = r
    /\ env' = RequestEnvironment
    /\ log' = log \o PhaseEvents(r.extensions, r.parsed, r.valid)
    /\ IF ~r.parsed THEN Fails(ParseError)
       ELSE IF ~r.valid THEN Fails(RuleError)
       ELSE IF limit.ok THEN pc' = "execute_first" /\ UNCHANGED first
       ELSE Fails(limit)
    /\ UNCHANGED <<dataVars, features, call, ret, units, plan, values, resolve_id,
                   defer_list, running, drain, stream, out>>

\* execute is called with a request whose source is yet to be parsed
ExecutePhases ==
    /\ pc = "idle"
    /\ \E r \in PhaseRequests : Phased(r, check_limit(r.check, r.limits))

\* execute is called with a mutation
ExecuteMutation ==
    /\ pc = "idle"
    /\ \E r \in MutationRequests : Checked(r, check_limit(r.check, r.limits))

ExecutionStart == IF req.extensions THEN <<Event("execution_start")>> ELSE <<>>
ExecutionEnd == IF req.extensions THEN <<Event("execution_end")>> ELSE <<>>

\* collect_fields has returned: its futures are handed to try_join_all, or
\* its error is returned by do_resolve and execute_first
Collect(r) ==
    IF r.ok
        THEN /\ units' = [i \in 1..Len(r.val) |->
                             [future |-> r.val[i], status |-> "pending",
                              id |-> 0, entry |-> Entry("", Null)]]
             /\ pc' = "query"
             /\ UNCHANGED first
    ELSE /\ Fails(r)
         /\ UNCHANGED units

\* execute_first, query: do_resolve collects the field futures
CollectQuery ==
    /\ pc = "execute_first"
    /\ req.is_query
    /\ log' = log \o ExecutionStart
    /\ Collect(collect_fields(env, Schema.query, req.selection_set, <<>>))
    /\ UNCHANGED <<dataVars, ctxVars, req, plan, values, resolve_id, defer_list, running,
                   drain, stream, out>>

\* fetch_add as it would be if it only loaded the counter
FetchAddLoad(counter, n) == counter

\* AtomicUsize::fetch_add, one indivisible step: the counter afterwards (the
\* value before it is what get_resolve_id returns)
fetch_add(counter, n) == counter + n

\* ContextBase::defer_list of the context execute_first hands to do_resolve
\* and to do_mutation_resolve
ContextDeferList(is_query) == Some("defer_list")

\* The deferred work item the defer branch of a field future pushes
DeferFuture(future) ==
    [path |-> <<result_name(future.field)>>, root |-> future.root,
     field |-> future.field]

\* The first poll of a field future, up to its first suspension: what it does
\* to the resolve id, the log and the defer list, and where it stands then
\* (ctx.defer_list is Some in every context execute_first creates)
PollField(future, extensions) ==
    LET field == future.field
        id == resolve_id
        started == IF extensions
                       THEN <<ResolveEvent("resolve_field_start", id)>> ELSE <<>>
        ended == IF extensions
                     THEN <<ResolveEvent("resolve_field_end", id)>> ELSE <<>>
    IN  IF extensions /\ ~field_by_name(future.root, field.name)
            THEN [to |-> "failed", id |-> id, events |-> <<>>, push |-> <<>>,
                  res |-> FieldNotFound(future.root, field)]
        ELSE IF ContextDeferList(req.is_query).some /\ is_defer(field.directives)
            THEN [to |-> "done", id |-> id, events |-> started \o ended,
                  push |-> <<DeferFuture(future)>>,
                  res |-> Ok(Entry(result_name(field), Null))]
        ELSE [to |-> "running", id |-> id,
              events |-> started \o <<ResolverEvent("resolver_start", field)>>,
              push |-> <<>>, res |-> Ok(Entry("", Null))]

\* The rest of a field future as it would be if resolve_field_end were
\* never fired
ReturnFieldWithoutEnd(future, id, extensions) ==
    LET field == future.field
        value == resolve_field(future.root, field)
    IN  IF IsPanic(value) THEN [events |-> <<>>, res |-> value]
        ELSE IF value.ok
            THEN [events |-> <<ResolverEvent("resolver_end", field)>>,
                  res |-> Ok(Entry(result_name(field), value.val))]
        ELSE [events |-> <<ResolverEvent("resolver_end", field)>>, res |-> value]

\* The rest of a field future: resolve_field returns
ReturnField(future, id, extensions) ==
    LET field == future.field
        value == resolve_field(future.root, field)
        ended == IF extensions
                     THEN <<ResolveEvent("resolve_field_end", id)>> ELSE <<>>
    IN  IF IsPanic(value) THEN [events |-> <<>>, res |-> value]
        ELSE IF value.ok
            THEN [events |-> <<ResolverEvent("resolver_end", field)>> \o ended,
                  res |-> Ok(Entry(result_name(field), value.val))]
        ELSE [events |-> <<ResolverEvent("resolver_end", field)>>, res |-> value]

\* A field future polled for the first time has run up to p
Polled(i, p) ==
    /\ resolve_id' = fetch_add(resolve_id, 1)
    /\ log' = log \o p.events
    /\ defer_list' = defer_list \o p.push
    /\ IF p.to = "failed"
           THEN Fails(p.res) /\ UNCHANGED units
       ELSE /\ units' = [units EXCEPT ![i].status = p.to,
                                      ![i].id = p.id,
                                      ![i].entry = p.res.val]
            /\ UNCHANGED <<first, pc>>

\* try_join_all polls a pending future
PollUnit ==
    /\ pc = "query"
    /\ \E i \in 1..Len(units) :
          /\ units[i].status = "pending"
          /\ IF units[i].future.fut = "ready"
                 THEN /\ units' = [units EXCEPT ![i].status = "done",
                                                ![i].entry = units[i].future.entry]
                      /\ UNCHANGED <<log, resolve_id, defer_list, first, pc>>
             ELSE Polled(i, PollField(units[i].future, req.extensions))
    /\ UNCHANGED <<dataVars, ctxVars, req, plan, values, running, drain, stream, out>>

\* The rest of a field future has run to r
Returned(i, r) ==
    /\ log' = log \o r.events
    /\ IF r.res.ok
           THEN /\ units' = [units EXCEPT ![i].status = "done",
                                          ![i].entry = r.res.val]
                /\ UNCHANGED <<first, pc>>
       ELSE Fails(r.res) /\ UNCHANGED units

\* The resolver of a running future returns; an error fails try_join_all
UnitReturn ==
    /\ pc = "query"
    /\ \E i \in 1..Len(units) :
          /\ units[i].status = "running"
          /\ Returned(i, ReturnField(units[i].future, units[i].id,
                                     req.extensions))
    /\ UNCHANGED <<dataVars, ctxVars, req, plan, values, resolve_id, defer_list, running,
                   drain, stream, out>>

Results(us) == [i \in 1..Len(us) |-> us[i].entry]

FirstResponse(data) ==
    Ok([resp |-> QueryResponse(None, data), defer_list |-> defer_list])

\* try_join_all is complete: do_resolve builds the map, execute_first returns
Join ==
    /\ pc = "query"
    /\ \A i \in 1..Len(units) : units[i].status = "done"
    /\ log' = log \o ExecutionEnd
    /\ first' = FirstResponse(Object(MapFromIter(<<>>, Results(units))))
    /\ pc' = "first_done"
    /\ UNCHANGED <<dataVars, ctxVars, req, units, plan, values, resolve_id, defer_list,
                   running, drain, stream, out>>

-----------------------------------------------------------------------------
(* mutation_resolver.rs: do_mutation_resolve                               *)

\* execute_first, mutation: do_mutation_resolve enters the root selection set
StartMutation ==
    /\ pc = "execute_first"
    /\ ~req.is_query
    /\ log' = log \o ExecutionStart
    /\ IF req.selection_set = <<>>
           THEN Fails(MustHaveSubFields(Schema.mutation)) /\ UNCHANGED plan
       ELSE /\ plan' = req.selection_set
            /\ pc' = "mutation"
            /\ UNCHANGED first
    /\ UNCHANGED <<dataVars, ctxVars, req, units, values, resolve_id, defer_list, running,
                   drain, stream, out>>

\* What do_resolve does with the selection at the head of the walk, up to its
\* next await: [to, plan, values, id, events, push, run, res]
Stay(rest, map) ==
    [to |-> "next", plan |-> rest, values |-> map, ids |-> 0, events |-> <<>>,
     push |-> <<>>, run |-> NoCall, res |-> Ok(TRUE)]

Raise(e) ==
    [to |-> "failed", plan |-> <<>>, values |-> <<>>, ids |-> 0, events |-> <<>>,
     push |-> <<>>, run |-> NoCall, res |-> e]

\* A fragment whose selections would be walked after those that follow it
EnterLast(selection_set, rest) == rest \o selection_set

\* The selections of a fragment are walked before those that follow it
Enter(selection_set, rest) == selection_set \o rest

MutationField(root, field, rest, extensions) ==
    IF field.name = "__typename"
        THEN Stay(rest, MapInsert(values,
                      Entry("__typename", String(introspection_type_name(root)))))
    ELSE IF extensions /\ ~field_by_name(root, field.name)
        THEN [Raise(FieldNotFound(root, field)) EXCEPT !.ids = 1]
    ELSE [to |-> "running", plan |-> rest, values |-> values, ids |-> 1,
          events |-> (IF extensions
                          THEN <<ResolveEvent("resolve_field_start", resolve_id)>>
                      ELSE <<>>)
                     \o <<ResolverEvent("resolver_start", field)>>,
          push |-> <<>>,
          run |-> [future |-> FieldFuture(root, field), id |-> resolve_id],
          res |-> Ok(TRUE)]

MutationFragmentSpread(root, spread, rest) ==
    IF spread.fragment_name \in DOMAIN env.fragments
        THEN IF env.fragments[spread.fragment_name] = <<>>
                 THEN Raise(MustHaveSubFields(root))
             ELSE Stay(Enter(env.fragments[spread.fragment_name], rest), values)
    ELSE Raise(UnknownFragment(spread.fragment_name))

\* root.collect_inline_fields(name, .., &mut futures) on an empty Vec
InlineFutures(root, inline) ==
    collect_inline_fields(env, root, inline.type_condition.val,
                          inline.selection_set, <<>>)

\* `for fut in futures`: the collected futures are awaited before the
\* selections that follow the inline fragment
AwaitFutures(futures, rest) ==
    IF futures.ok THEN Stay(Enter(futures.val, rest), values) ELSE Raise(futures)

MutationInlineFragment(root, inline, rest) ==
    IF inline.type_condition.some
        THEN AwaitFutures(InlineFutures(root, inline), rest)
    ELSE IF inline.selection_set = <<>> THEN Raise(MustHaveSubFields(root))
    ELSE Stay(Enter(inline.selection_set, rest), values)

\* One turn of the loop as it would be if an error of is_skip were passed over
MutationSelectionPastError(root, selection, rest, extensions, skip) ==
    IF ~skip.ok THEN Stay(rest, values)
    ELSE IF skip.val THEN Stay(rest, values)
    ELSE IF selection.kind = "Field"
        THEN MutationField(root, selection, rest, extensions)
    ELSE IF selection.kind = "FragmentSpread"
        THEN MutationFragmentSpread(root, selection, rest)
    ELSE MutationInlineFragment(root, selection, rest)

\* One turn of the loop of do_resolve, is_skip having answered skip
MutationSelection(root, selection, rest, extensions, skip) ==
    IF ~skip.ok THEN Raise(skip)
    ELSE IF skip.val THEN Stay(rest, values)
    ELSE IF selection.kind = "Field"
        THEN MutationField(root, selection, rest, extensions)
    ELSE IF selection.kind = "FragmentSpread"
        THEN MutationFragmentSpread(root, selection, rest)
    ELSE MutationInlineFragment(root, selection, rest)

\* A collected future awaited by do_resolve has run up to p
MutationPolled(future, rest, p) ==
    IF p.to = "failed" THEN [Raise(p.res) EXCEPT !.ids = 1]
    ELSE IF p.to = "done"
        THEN [Stay(rest, MapInsert(values, p.res.val))
                 EXCEPT !.ids = 1, !.events = p.events, !.push = p.push]
    ELSE [to |-> "running", plan |-> rest, values |-> values, ids |-> 1,
          events |-> p.events, push |-> <<>>,
          run |-> [future |-> future, id |-> p.id], res |-> Ok(TRUE)]

\* `for fut in futures { fut.await? }`: the next collected future is polled
MutationFuture(future, rest, extensions) ==
    IF future.fut = "ready" THEN Stay(rest, MapInsert(values, future.entry))
    ELSE MutationPolled(future, rest, PollField(future, extensions))

MutationWalk(root, extensions) ==
    IF "fut" \in DOMAIN Head(plan)
        THEN MutationFuture(Head(plan), Tail(plan), extensions)
    ELSE MutationSelection(root, Head(plan), Tail(plan), extensions,
                           is_skip(env, Head(plan).directives))

\* do_resolve has run up to its next await, or to its return with an error
Walked(w) ==
    /\ resolve_id' = fetch_add(resolve_id, w.ids)
    /\ log' = log \o w.events
    /\ defer_list' = defer_list \o w.push
    /\ running' = w.run
    /\ IF w.to = "failed"
           THEN Fails(w.res) /\ UNCHANGED <<plan, values>>
       ELSE /\ plan' = w.plan
            /\ values' = w.values
            /\ UNCHANGED <<first, pc>>

\* do_resolve goes on with the next selection, up to the next await
MutationStep ==
    /\ pc = "mutation"
    /\ running = NoCall
    /\ plan # <<>>
    /\ Walked(MutationWalk(Schema.mutation, req.extensions))
    /\ UNCHANGED <<dataVars, ctxVars, req, units, drain, stream, out>>

\* The awaited resolver has returned r
Inserted(r) ==
    /\ log' = log \o r.events
    /\ running' = NoCall
    /\ IF ~IsPanic(r.res) /\ r.res.ok
           THEN /\ values' = MapInsert(values, r.res.val)
                /\ UNCHANGED <<first, pc>>
       ELSE Fails(r.res) /\ UNCHANGED values

\* The awaited resolver returns: its value is inserted, or its error returned
MutationReturn ==
    /\ pc = "mutation"
    /\ running # NoCall
    /\ Inserted(ReturnField(running.future, running.id, req.extensions))
    /\ UNCHANGED <<dataVars, ctxVars, req, units, plan, resolve_id, defer_list, drain,
                   stream, out>>

\* The walk is over: do_mutation_resolve returns the map
MutationDone ==
    /\ pc = "mutation"
    /\ running = NoCall
    /\ plan = <<>>
    /\ log' = log \o ExecutionEnd
    /\ first' = FirstResponse(Object(values))
    /\ pc' = "first_done"
    /\ UNCHANGED <<dataVars, ctxVars, req, units, plan, values, resolve_id, defer_list,
                   running, drain, stream, out>>

-----------------------------------------------------------------------------
(* query.rs: execute_stream and the loop of execute                        *)

Returns(r) == IF req.caller = "execute" THEN r ELSE NoCall

\* QueryResponse::merge
merge(resp, part) == Panic("not yet implemented")

\* execute_first has panicked: the panic unwinds through the stream and
\* through execute to the caller
Unwind ==
    /\ pc' = "done"
    /\ out' = first
    /\ UNCHANGED <<stream, drain>>

\* execute_first has returned: the stream yields the primary response, or
\* yields the error and ends (execute returns it)
StreamFirst ==
    /\ pc = "first_done"
    /\ IF IsPanic(first) THEN Unwind
       ELSE IF first.ok
           THEN /\ stream' = <<Ok(first.val.resp)>>
                /\ drain' = [current |-> first.val.defer_list, new |-> <<>>]
                /\ pc' = "stream_loop"
                /\ UNCHANGED out
       ELSE /\ stream' = <<first>>
            /\ pc' = "done"
            /\ out' = Returns(first)
            /\ UNCHANGED drain
    /\ UNCHANGED <<dataVars, ctxVars, req, units, plan, values, log, resolve_id,
                   defer_list, running, first>>

\* A deferred work item is awaited: resolve_field in a fresh context
DriveDefer(defer) ==
    LET value == resolve_field(defer.root, defer.field) IN
    IF value.ok
        THEN Ok([resp |-> QueryResponse(Some(defer.path), value.val),
                 defer_list |-> <<>>])
    ELSE value

\* The stream is asked for its next item: the next deferred item of the
\* batch is driven and its response yielded (execute merges it), or the next
\* batch is taken, or the stream ends (execute returns the response)
StreamNext ==
    /\ pc = "stream_loop"
    /\ IF drain.current # <<>>
           THEN LET res == DriveDefer(Head(drain.current)) IN
                IF res.ok
                    THEN /\ drain' = [current |-> Tail(drain.current),
                                      new |-> drain.new \o res.val.defer_list]
                         /\ stream' = Append(stream, Ok(res.val.resp))
                         /\ IF req.caller = "execute"
                                THEN /\ out' = merge(stream[1].val, res.val.resp)
                                     /\ pc' = "done"
                            ELSE UNCHANGED <<out, pc>>
                ELSE /\ stream' = Append(stream, res)
                     /\ out' = Returns(res)
                     /\ pc' = "done"
                     /\ UNCHANGED drain
       ELSE IF drain.new = <<>>
           THEN /\ pc' = "done"
                /\ out' = Returns(stream[1])
                /\ UNCHANGED <<drain, stream>>
       ELSE /\ drain' = [current |-> drain.new, new |-> <<>>]
            /\ UNCHANGED <<pc, out, stream>>
    /\ UNCHANGED <<dataVars, ctxVars, req, units, plan, values, log, resolve_id,
                   defer_list, running, first>>

-----------------------------------------------------------------------------
(* subscription_type.rs: create_subscription_stream                        *)

\* A subscription root the user defines, with the fields of Resolvers
UserSubscription ==
    [object |-> "user", type_name |-> "Subscription",
     fields |-> DOMAIN Resolvers]

\* EmptySubscription: Type::type_name gives "EmptyMutation"
EmptySubscription ==
    [object |-> "EmptySubscription", type_name |-> "EmptyMutation", fields |-> {}]

Subscriptions == {UserSubscription, EmptySubscription}

NotConfiguredSubscriptions ==
    [ok |-> FALSE, err |-> [kind |-> "NotConfiguredSubscriptions"]]

\* The stream create_field_stream returns for a field of the subscription
FieldStream(field) == [stream |-> field.name, field_name |-> result_name(field)]

\* SubscriptionType::create_field_stream
create_field_stream(subscription, field) ==
    IF subscription.object = "EmptySubscription" THEN NotConfiguredSubscriptions
    ELSE IF field.name \in subscription.fields THEN Ok(FieldStream(field))
    ELSE FieldNotFoundAt(subscription, field, None)

\* What create_subscription_stream leaves: its result and the streams pushed
Created(res, streams) == [res |-> res, streams |-> streams]

\* The selection sets still to be walked once selection_set is entered
Descend(selection_set, rest) == selection_set \o rest

RECURSIVE create_subscription_stream(_, _, _, _)

\* create_field_stream(..).await? and streams.push
PushStream(e, subscription, created, rest, streams) ==
    IF created.ok
        THEN create_subscription_stream(e, subscription, rest,
                                        Append(streams, created.val))
    ELSE Created(created, streams)

\* The fragment is walked if the environment has it; there is no else arm
SubscriptionFragmentSpread(e, subscription, spread, rest, streams) ==
    IF spread.fragment_name \in DOMAIN e.fragments
        THEN create_subscription_stream(e, subscription,
                 Descend(e.fragments[spread.fragment_name], rest), streams)
    ELSE create_subscription_stream(e, subscription, rest, streams)

\* An inline fragment is walked if it has no type condition or names the
\* subscription type
SubscriptionInlineFragment(e, subscription, inline, rest, streams) ==
    IF inline.type_condition.some
           /\ inline.type_condition.val # subscription.type_name
        THEN create_subscription_stream(e, subscription, rest, streams)
    ELSE create_subscription_stream(e, subscription,
             Descend(inline.selection_set, rest), streams)

\* One arm of the match, after ctx.is_skip(..)? has given skip
SubscriptionSelection(e, subscription, selection, rest, streams, skip) ==
    IF ~skip.ok THEN Created(skip, streams)
    ELSE IF skip.val
        THEN create_subscription_stream(e, subscription, rest, streams)
    ELSE IF selection.kind = "Field"
        THEN PushStream(e, subscription,
                        create_field_stream(subscription, selection), rest, streams)
    ELSE IF selection.kind = "FragmentSpread"
        THEN SubscriptionFragmentSpread(e, subscription, selection, rest, streams)
    ELSE SubscriptionInlineFragment(e, subscription, selection, rest, streams)

\* for selection in &ctx.items { .. } Ok(()): items are the selections still
\* to be walked, those of the fragments entered first
create_subscription_stream(e, subscription, items, streams) ==
    IF items = <<>> THEN Created(Ok(Null), streams)
    ELSE SubscriptionSelection(e, subscription, Head(items), Tail(items), streams,
                               is_skip(e, Head(items).directives))

CallCreateSubscriptionStream ==
    /\ call = NoCall
    /\ \E subscription \in Subscriptions,
          selection_set \in SeqsUpTo(Selections, MaxSelections) :
          /\ call' = [op |-> "create_subscription_stream",
                      subscription |-> subscription,
                      selection_set |-> selection_set]
          /\ ret' = create_subscription_stream(env, subscription, selection_set, <<>>)
    /\ UNCHANGED <<env, features, engVars, dataVars>>

-----------------------------------------------------------------------------
(* query.rs: current_operation                                             *)

\* Definition::Operation(OperationDefinition::SelectionSet(s))
ShorthandDefinition(selection_set) ==
    [def |-> "SelectionSet", name |-> None, selection_set |-> selection_set,
     variable_definitions |-> <<>>]

\* Definition::Operation(Query | Mutation | Subscription)
OperationDefinition(def, name, selection_set, variable_definitions) ==
    [def |-> def, name |-> name, selection_set |-> selection_set,
     variable_definitions |-> variable_definitions]

\* Definition::Fragment
FragmentDefinition(name, selection_set) ==
    [def |-> "Fragment", name |-> Some(name), selection_set |-> selection_set,
     variable_definitions |-> <<>>]

MissingOperation == [ok |-> FALSE, err |-> [kind |-> "MissingOperation"]]

\* The guard of the Query, Mutation and Subscription arms
OperationMatches(definition, operation_name) ==
    \/ ~definition.name.some
    \/ ~operation_name.some
    \/ definition.name = operation_name

\* What the arm of the match returns for a definition: Some(return ..), or
\* None when the loop goes on to the next definition
OperationArm(definition, operation_name) ==
    IF definition.def = "SelectionSet"
        THEN Some(Some([selection_set |-> definition.selection_set,
                        variable_definitions |-> <<>>, is_query |-> TRUE]))
    ELSE IF definition.def \in {"Query", "Mutation"}
            /\ OperationMatches(definition, operation_name)
        THEN Some(Some([selection_set |-> definition.selection_set,
                        variable_definitions |-> definition.variable_definitions,
                        is_query |-> definition.def = "Query"]))
    ELSE IF definition.def = "Subscription"
            /\ OperationMatches(definition, operation_name)
        THEN Some(None)
    ELSE None

RECURSIVE current_operation(_, _)

OperationNext(arm, rest, operation_name) ==
    IF arm.some THEN arm.val ELSE current_operation(rest, operation_name)

\* current_operation: the first definition an arm returns for, else None
current_operation(definitions, operation_name) ==
    IF definitions = <<>> THEN None
    ELSE OperationNext(OperationArm(Head(definitions), operation_name),
                       Tail(definitions), operation_name)

\* execute_first: current_operation(..).ok_or_else(|| MissingOperation)?
ok_or_else(operation) ==
    IF operation.some THEN Ok(operation.val) ELSE MissingOperation

OperationNames == {None, Some("A"), Some("B")}

\* The definitions of a document; the selection set tells them apart
Definitions ==
    {ShorthandDefinition(<<Field("a", None, <<>>)>>),
     FragmentDefinition("F", <<Field("a", None, <<>>)>>)}
    \cup {OperationDefinition(def, name, <<Field("b", name, <<>>)>>,
                              <<VariableDefinition("x", None)>>) :
             def \in {"Query", "Mutation", "Subscription"}, name \in OperationNames}

CallCurrentOperation ==
    /\ call = NoCall
    /\ \E definitions \in SeqsUpTo(Definitions, MaxDefinitions),
          operation_name \in OperationNames :
          /\ call' = [op |-> "current_operation", definitions |-> definitions,
                      operation_name |-> operation_name]
          /\ ret' = ok_or_else(current_operation(definitions, operation_name))
    /\ UNCHANGED <<env, features, engVars, dataVars>>

-----------------------------------------------------------------------------
(* derive/subscription.rs: the stream of a subscription field              *)

\* A message of the source stream: an object with a field a, and a field
\* fail whose resolver fails for some messages
MessageObject(a, failing) ==
    [object |-> "user", type_name |-> "Event", implements |-> {},
     resolvers |-> [n \in {"a", "fail"} |->
                       IF n = "a" THEN Ok(IntValue(a))
                       ELSE IF failing THEN Err("ResolverError", n)
                       ELSE Ok(Boolean(FALSE))],
     disable_introspection |-> FALSE]

Messages == {MessageObject(1, FALSE), MessageObject(2, FALSE), MessageObject(3, TRUE)}

\* The selection sets of the subscription field
MessageSelections ==
    {<<Field("a", None, <<>>)>>,
     <<Field("fail", None, <<>>), Field("a", Some("x"), <<>>)>>}

\* What the future collect_fields pushed gives when it is awaited
AwaitFuture(future) ==
    IF future.fut = "ready" THEN Ok(future.entry)
    ELSE IF resolve_field(future.root, future.field).ok
        THEN Ok(Entry(result_name(future.field),
                      resolve_field(future.root, future.field).val))
    ELSE resolve_field(future.root, future.field)

\* try_join_all(futures) and Map::from_iter: the object, or the error of the
\* future that fails
JoinAll(results) ==
    IF \E i \in 1..Len(results) : ~results[i].ok
        THEN results[CHOOSE i \in 1..Len(results) : ~results[i].ok]
    ELSE Ok(Object(MapFromIter(<<>>, [i \in 1..Len(results) |-> results[i].val])))

\* do_resolve, the futures having been collected
ResolveCollected(futures) ==
    IF futures.ok
        THEN JoinAll([i \in 1..Len(futures.val) |-> AwaitFuture(futures.val[i])])
    ELSE futures

\* OutputValueType::resolve(&msg, &ctx_selection_set, pos): do_resolve of the
\* message on the selection set of the field
ResolveMessage(msg, field_selection_set) ==
    ResolveCollected(collect_fields(env, msg, field_selection_set, <<>>))

\* filter_map as it would be if a failed resolution were emitted as null
FilterMapFailureAsNull(field_name, res) ==
    IF res.ok THEN <<Object(<<Entry(field_name, res.val)>>)>>
    ELSE <<Object(<<Entry(field_name, Null)>>)>>

\* filter_map(|res| res.ok().map(|value| json!({ &field_name: value }))): the
\* items the stream yields for one resolved message
filter_map(field_name, res) ==
    IF res.ok THEN <<Object(<<Entry(field_name, res.val)>>)>> ELSE <<>>

\* create_field_stream returns the stream of a field over a source that will
\* give the messages source
CreateFieldStream ==
    /\ call = NoCall
    /\ \E field \in {Field("a", None, <<>>), Field("b", Some("x"), <<>>)},
          field_selection_set \in MessageSelections,
          source \in SeqsUpTo(Messages, MaxMessages) :
          call' = [op |-> "create_field_stream", field_name |-> result_name(field),
                   field_selection_set |-> field_selection_set,
                   source |-> source]
    /\ ret' = [taken |-> 0, items |-> <<>>, ended |-> FALSE]
    /\ UNCHANGED <<env, features, engVars, dataVars>>

\* The stream is polled: the next message of the source is resolved (then)
\* and yielded or dropped (filter_map); when the fused source has ended, so
\* has the stream
PollFieldStream ==
    /\ call # NoCall
    /\ call.op = "create_field_stream"
    /\ ~ret.ended
    /\ IF ret.taken < Len(call.source)
           THEN ret' = [ret EXCEPT
                            !.taken = ret.taken + 1,
                            !.items = ret.items
                                \o filter_map(call.field_name,
                                       ResolveMessage(call.source[ret.taken + 1],
                                                      call.field_selection_set))]
       ELSE ret' = [ret EXCEPT !.ended = TRUE]
    /\ UNCHANGED <<env, features, call, engVars, dataVars>>

-----------------------------------------------------------------------------
(* QueryRoot::resolve_field with introspection enabled and disabled        *)

QueryRootNames ==
    {"a", "fail", "zz", "__schema", "__type", "_entities", "_service"}

QueryRootArguments ==
    {<<>>,
     <<Argument("name", String("Query"))>>,
     <<Argument("name", String("Nope"))>>,
     <<Argument("name", Variable("x"))>>,
     <<Argument("name", IntValue(1))>>,
     <<Argument("representations", List(<<>>))>>}

\* The fields the query root is asked to resolve
QueryRootFields ==
    {[Field(name, alias, <<>>) EXCEPT !.arguments = arguments] :
        name \in QueryRootNames, alias \in {None, Some("x")},
        arguments \in QueryRootArguments}

\* resolve_field of the same field on a QueryRoot with the flag set and on one
\* with the flag clear
CallQueryRootResolveField ==
    /\ call = NoCall
    /\ \E field \in QueryRootFields :
          /\ call' = [op |-> "query_root_resolve_field", field |-> field]
          /\ ret' = [disabled |-> resolve_field(QueryRoot(UserObject("Query"), TRUE),
                                                field),
                     enabled |-> resolve_field(QueryRoot(UserObject("Query"), FALSE),
                                               field)]
    /\ UNCHANGED <<env, features, engVars, dataVars>>

-----------------------------------------------------------------------------
(* Type: type_name and create_type_info of the root types                  *)

MaxRoots == 3

\* The types a schema is built from: roots the user defines, and the empty ones
RootTypes == {"Query", "Mutation", "Subscription", "EmptyMutation",
              "EmptySubscription"}

\* Type::type_name
type_name(ty) == IF ty = "EmptySubscription" THEN "EmptyMutation" ELSE ty

\* The registry::Type::Object the closure of create_type_info builds
TypeInfo(ty) == [kind |-> "Object", name |-> ty]

\* Registry::create_type::<T, _>: nothing is done when T::type_name() is
\* already a key of the registry; otherwise what the builder returns is
\* installed under that key
create_type(registry, ty) ==
    IF type_name(ty) \in DOMAIN registry THEN registry
    ELSE (type_name(ty) :> TypeInfo(ty)) @@ registry

\* T::create_type_info(&mut registry), on the roots of a schema one after
\* the other
CallCreateTypeInfo ==
    /\ \/ call = NoCall
       \/ call.op = "create_type_info" /\ Len(call.roots) < MaxRoots
    /\ \E ty \in RootTypes :
          /\ call' = [op |-> "create_type_info",
                      roots |-> (IF call = NoCall THEN <<>> ELSE call.roots)
                                    \o <<ty>>]
          /\ ret' = create_type(IF call = NoCall THEN <<>> ELSE ret, ty)
    /\ UNCHANGED <<env, features, engVars, dataVars>>

-----------------------------------------------------------------------------
(* Objects: #[SimpleObject] with flattened fields, #[Interface]            *)

MyObj == SimpleObject("MyObj", {}, <<OwnField("a", IntValue(1)),
                                     OwnField("b", IntValue(2))>>)

Other == SimpleObject("Other", {}, <<OwnField("b", IntValue(5)),
                                     OwnField("d", IntValue(4))>>)

\* The fields a struct is declared with
FieldDecls ==
    {OwnField("a", IntValue(7)), OwnField("c", IntValue(3)),
     FlattenField(MyObj), FlattenField(Other)}

\* The names of the own fields of a struct are distinct
DistinctOwnFields(fields) ==
    \A i, j \in 1..Len(fields) :
        (i # j /\ fields[i].kind = "own" /\ fields[j].kind = "own")
            => fields[i].name # fields[j].name

\* The structs whose fields are resolved
Structs ==
    {SimpleObject("Query", {}, fields) :
        fields \in {f \in SeqsUpTo(FieldDecls, MaxFields) : DistinctOwnFields(f)}}

FieldNames == {"a", "b", "c", "d", "zz"}

\* The variants of the interface MyInterface, as the registry has them
Variants ==
    {SimpleObject("MyObj2", {"MyInterface"}, <<FlattenField(MyObj),
                                               OwnField("c", IntValue(3))>>),
     SimpleObject("MyObj3", {"MyInterface", "Node"}, <<OwnField("a", IntValue(7))>>)}

InterfaceValues == {Interface("MyInterface", {"a"}, v) : v \in Variants}

TypeNames == {"MyObj2", "MyObj3", "MyInterface", "Node", "MyObj"}

\* The selection sets of the inline fragments collected on an interface
InlineSelections ==
    SeqsUpTo({Field("a", None, <<>>), Field("c", Some("x"), <<>>),
              Field("__typename", None, <<>>),
              InlineFragment(Some("Node"), <<>>, <<Field("a", None, <<>>)>>)},
             MaxSelections)

CallResolveField ==
    /\ call = NoCall
    /\ \E root \in Structs, name \in FieldNames :
          /\ call' = [op |-> "resolve_field", root |-> root, name |-> name]
          /\ ret' = resolve_field(root, Field(name, None, <<>>))
    /\ UNCHANGED <<env, features, engVars, dataVars>>

CallCollectInlineFields ==
    /\ call = NoCall
    /\ \E root \in InterfaceValues, name \in TypeNames,
          selection_set \in InlineSelections :
          /\ call' = [op |-> "collect_inline_fields", root |-> root,
                      name |-> name, selection_set |-> selection_set]
          /\ ret' = collect_inline_fields(env, root, name, selection_set, <<>>)
    /\ UNCHANGED <<env, features, engVars, dataVars>>

-----------------------------------------------------------------------------
(* The execution engine                                                    *)

Init ==
    /\ env = RequestEnvironment
    /\ call = NoCall
    /\ ret = NoCall
    /\ EngineIdle
    /\ schema_data = DataDefault
    /\ DataIdle

Next ==
    \/ Execute
    \/ CollectQuery
    \/ PollUnit
    \/ UnitReturn
    \/ Join
    \/ StartMutation
    \/ MutationStep
    \/ MutationReturn
    \/ MutationDone
    \/ StreamFirst
    \/ StreamNext

Spec == Init /\ [][Next]_vars

NextVariables ==
    \/ CallSetUpload
    \/ CallParseFromJson

SpecVariables == Init /\ [][NextVariables]_vars

NextHeld ==
    \/ VariablesDefault
    \/ VariablesParseFromJson
    \/ VariablesSetUpload

SpecHeld == Init /\ [][NextHeld]_vars

NextQueryRoot ==
    \/ CallQueryRootResolveField

SpecQueryRoot == Init /\ [][NextQueryRoot]_vars

NextRegistry ==
    \/ CallCreateTypeInfo

SpecRegistry == Init /\ [][NextRegistry]_vars

NextObjects ==
    \/ CallResolveField
    \/ CallCollectInlineFields

SpecObjects == Init /\ [][NextObjects]_vars

NextFieldStream ==
    \/ CreateFieldStream
    \/ PollFieldStream

SpecFieldStream == Init /\ [][NextFieldStream]_vars

NextOperation == CallCurrentOperation

SpecOperation == Init /\ [][NextOperation]_vars

\* Queries against schemas with limits
NextMutation ==
    \/ ExecuteMutation
    \/ StartMutation
    \/ MutationStep
    \/ MutationReturn
    \/ MutationDone
    \/ StreamFirst
    \/ StreamNext

SpecMutation == Init /\ [][NextMutation]_vars

NextPhases ==
    \/ ExecutePhases
    \/ CollectQuery
    \/ PollUnit
    \/ UnitReturn
    \/ Join
    \/ StartMutation
    \/ MutationStep
    \/ MutationReturn
    \/ MutationDone
    \/ StreamFirst
    \/ StreamNext

SpecPhases == Init /\ [][NextPhases]_vars

NextLimited ==
    \/ ExecuteLimited
    \/ CollectQuery
    \/ PollUnit
    \/ UnitReturn
    \/ Join
    \/ StreamFirst
    \/ StreamNext

SpecLimited == Init /\ [][NextLimited]_vars

NextSubscription == CallCreateSubscriptionStream

SpecSubscription == Init /\ [][NextSubscription]_vars

\* Schemas built with data of some of the types, and the requests they serve
InitData ==
    /\ env = RequestEnvironment
    /\ call = NoCall
    /\ ret = NoCall
    /\ EngineIdle
    /\ schema_data \in [TypeIds -> {None} \cup {Some(v) : v \in SchemaValues}]
    /\ DataIdle

NextData ==
    \/ QueryBuilderNew
    \/ QueryBuilderData
    \/ ExecuteDataOpt

SpecData == InitData /\ [][NextData]_vars

-----------------------------------------------------------------------------
(* Properties of QueryRoot::resolve_field (checked under SpecQueryRoot)    *)

\* C39: disable_introspection changes the outcome of resolving __schema
\* only: every other field, __type, _service and _entities included, resolves
\* to the same result with the flag on and off, and __type(name) still
\* returns the type information with introspection disabled.
C39_FlagGuardsSchemaOnly ==
    call.op = "query_root_resolve_field" =>
        /\ call.field.name # "__schema" => ret.disabled = ret.enabled
        /\ call.field.name = "__schema" =>
               (~ret.disabled.ok /\ ret.enabled = Ok(IntrospectionSchema))
        /\ \A name \in RegistryTypes :
               (/\ call.field.name = "__type"
                /\ call.field.arguments = <<Argument("name", String(name))>>)
                   => ret.disabled = Ok(IntrospectionType(name))

\* __type(name: "Query") was resolved with introspection disabled
C39_Witness ==
    /\ call.op = "query_root_resolve_field"
    /\ call.field.name = "__type"
    /\ call.field.arguments = <<Argument("name", String("Query"))>>
    /\ ret.disabled = Ok(IntrospectionType("Query"))
    /\ ret.enabled = ret.disabled

-----------------------------------------------------------------------------
(* Properties of the type names (checked under SpecRegistry)               *)

\* The roots create_type_info has been called on
Registered == {call.roots[i] : i \in 1..Len(call.roots)}

\* C35: EmptySubscription::type_name() is "EmptySubscription", the name its
\* create_type_info registers, and differs from EmptyMutation's, so that
\* after create_type_info of both each has a registry entry of its own under
\* its type name.
C35_EmptyRootsRegistered ==
    (call.op = "create_type_info"
        /\ {"EmptyMutation", "EmptySubscription"} \subseteq Registered) =>
        /\ type_name("EmptySubscription") = "EmptySubscription"
        /\ type_name("EmptySubscription") # type_name("EmptyMutation")
        /\ \A ty \in {"EmptyMutation", "EmptySubscription"} :
               /\ type_name(ty) \in DOMAIN ret
               /\ ret[type_name(ty)] = TypeInfo(ty)

-----------------------------------------------------------------------------
(* Properties of objects and interfaces (checked under SpecObjects)        *)

\* The variant the interface value of the call holds
Variant == call.root.active

\* C21: collect_inline_fields(name) of an interface value whose active
\* variant is V contributes the fields of the inline fragment, collected on V,
\* exactly when name is V's type name or an interface V is registered as
\* implementing; for any other name the futures are left as they were and no
\* error is raised.
C21_InterfaceForwardsToVariant ==
    call.op = "collect_inline_fields" =>
        IF call.name = Variant.type_name \/ call.name \in Variant.implements
            THEN ret = collect_fields(env, Variant, call.selection_set, <<>>)
        ELSE ret = Ok(<<>>)

\* An inline fragment on the interface's own name has contributed a field of
\* the variant that the interface does not declare
C21_Witness ==
    /\ call.op = "collect_inline_fields"
    /\ call.name = "MyInterface"
    /\ call.selection_set = <<Field("c", Some("x"), <<>>)>>
    /\ ret = Ok(<<FieldFuture(Variant, Field("c", Some("x"), <<>>))>>)

\* The flattened fields of the struct of the call that register the name
FlattenedWith(name) ==
    {i \in 1..Len(call.root.fields) :
        /\ call.root.fields[i].kind = "flatten"
        /\ name \in RegisteredFields(call.root.fields[i].inner)}

\* The own fields of the struct of the call that have the name
OwnWith(name) ==
    {i \in 1..Len(call.root.fields) :
        /\ call.root.fields[i].kind = "own"
        /\ call.root.fields[i].name = name}

\* C22: resolve_field of an object with flattened fields, for a name among
\* the registered fields of a flattened inner type, returns what the inner
\* object's resolve_field returns for it; for the name of an own field it
\* resolves that field; for any other name it returns FieldNotFound.
C22_FlattenResolvesInner ==
    call.op = "resolve_field" =>
        /\ FlattenedWith(call.name) # {} =>
               \E i \in FlattenedWith(call.name) :
                   ret = resolve_field(call.root.fields[i].inner,
                                       Field(call.name, None, <<>>))
        /\ (FlattenedWith(call.name) = {} /\ OwnWith(call.name) # {}) =>
               \E i \in OwnWith(call.name) : ret = Ok(call.root.fields[i].value)
        /\ (FlattenedWith(call.name) = {} /\ OwnWith(call.name) = {}) =>
               ret = FieldNotFound(call.root, Field(call.name, None, <<>>))

-----------------------------------------------------------------------------
(* Properties of a subscription field's stream (checked under SpecFieldStream) *)

\* The message, with the fields its resolvers give, resolves on the selection
\* set of the call
MessageResolves(msg) ==
    \A i \in 1..Len(call.field_selection_set) :
        msg.resolvers[call.field_selection_set[i].name].ok

\* The object a message resolves to on the selection set of the call
ResolvedValue(msg) ==
    Object(MapFromIter(<<>>,
        [i \in 1..Len(call.field_selection_set) |->
            Entry(result_name(call.field_selection_set[i]),
                  msg.resolvers[call.field_selection_set[i].name].val)]))

\* The values of the messages among the first n of the source whose
\* resolution succeeds, in the order of the source
RECURSIVE Resolved(_, _)
Resolved(source, n) ==
    IF n = 0 THEN <<>>
    ELSE IF MessageResolves(source[n])
        THEN Append(Resolved(source, n - 1), ResolvedValue(source[n]))
    ELSE Resolved(source, n - 1)

\* C23: the stream of a subscription field has emitted, for each message
\* taken from the source whose resolution succeeded, one object {result key:
\* value}, in the order of the source; a message whose resolution failed has
\* produced nothing, and the stream ends only when the source has ended.
C23_StreamEmitsResolvedMessages ==
    (call # NoCall /\ call.op = "create_field_stream") =>
        /\ Len(ret.items) = Len(Resolved(call.source, ret.taken))
        /\ \A i \in 1..Len(ret.items) :
               ret.items[i] =
                   Object(<<Entry(call.field_name,
                                  Resolved(call.source, ret.taken)[i])>>)
        /\ ret.ended => ret.taken = Len(call.source)

\* A stream under an alias has ended after a message that failed to resolve
\* came between two that resolved
C23_Witness ==
    /\ call # NoCall
    /\ call.op = "create_field_stream"
    /\ call.field_name = "x"
    /\ Len(call.field_selection_set) = 2
    /\ call.source = <<MessageObject(1, FALSE), MessageObject(3, TRUE), MessageObject(2, FALSE)>>
    /\ ret.ended
    /\ Len(ret.items) = 2

-----------------------------------------------------------------------------
(* Properties of current_operation (checked under SpecOperation)           *)

\* The operations of the document of the call
Operations ==
    {i \in 1..Len(call.definitions) : call.definitions[i].def # "Fragment"}

\* The operations of the document that have the name requested
Named == {i \in Operations : call.definitions[i].name = call.operation_name}

\* The document has operations of distinct names, and an operation without
\* a name only if that is its sole operation
ValidDocument ==
    /\ \A i, j \in Operations :
           i # j => /\ call.definitions[i].name.some
                    /\ call.definitions[i].name # call.definitions[j].name

\* C24: when an operation name is requested and no operation of the document
\* has that name, execution fails with MissingOperation; when a query or a
\* mutation has that name, that operation is the one executed.
C24_OperationByName ==
    (call.op = "current_operation" /\ call.operation_name.some /\ ValidDocument) =>
        /\ Named = {} => ret = MissingOperation
        /\ \A i \in Named :
               call.definitions[i].def \in {"Query", "Mutation"} =>
                   /\ ret.ok
                   /\ ret.val.selection_set = call.definitions[i].selection_set
                   /\ ret.val.is_query = (call.definitions[i].def = "Query")

-----------------------------------------------------------------------------
(* Properties of the context data (checked under SpecData)                 *)

\* The request attached a value of type D with QueryBuilder::data
Attached(request, D) == request.ctx_data.some /\ request.ctx_data.val[D].some

-----------------------------------------------------------------------------
(* Properties of create_subscription_stream (checked under SpecSubscription) *)

\* The walk starts with a fragment spread under no directive that names a
\* fragment the environment does not have
AbsentSpreadFirst ==
    /\ call.op = "create_subscription_stream"
    /\ call.selection_set # <<>>
    /\ call.selection_set[1].kind = "FragmentSpread"
    /\ call.selection_set[1].directives = <<>>
    /\ call.selection_set[1].fragment_name \notin DOMAIN env.fragments

\* C17: in the walk of a subscription's selection set, as in those of a query
\* and of a mutation, a fragment spread that is not elided and names a fragment
\* absent from the environment raises UnknownFragment.
C17_AbsentFragmentRaises ==
    AbsentSpreadFirst =>
        ret.res = UnknownFragment(call.selection_set[1].fragment_name)

-----------------------------------------------------------------------------
(* Properties of the execution engine (checked under Spec)                 *)

Answered == pc \in {"first_done", "done"}

\* alias ?? name of the field a collected future stands for
KeyOf(future) ==
    IF future.fut = "ready" THEN future.entry.k
    ELSE IF future.field.alias.some THEN future.field.alias.val
    ELSE future.field.name

\* What the field a collected future stands for resolves to
ValueOf(future) ==
    IF future.fut = "ready" THEN future.entry.val
    ELSE resolve_field(future.root, future.field).val

\* The result keys of the surviving fields, in selection-set order with
\* fragment spreads and inline fragments expanded in place
SurvivingKeys == [i \in 1..Len(units) |-> KeyOf(units[i].future)]

DataFields == first.val.resp.data.fields

FirstIndex(s, k) ==
    CHOOSE i \in 1..Len(s) : s[i] = k /\ \A j \in 1..(i - 1) : s[j] # k

LastIndex(s, k) ==
    CHOOSE i \in 1..Len(s) : s[i] = k /\ \A j \in (i + 1)..Len(s) : s[j] # k

RECURSIVE SelectionOrder(_)
SelectionOrder(selection_set) ==
    IF selection_set = <<>> THEN <<>>
    ELSE (IF Head(selection_set).kind = "Field"
              THEN <<Head(selection_set).name>>
          ELSE IF Head(selection_set).kind = "FragmentSpread"
              THEN IF Head(selection_set).fragment_name \in DOMAIN Fragments
                       THEN SelectionOrder(Fragments[Head(selection_set).fragment_name])
                   ELSE <<>>
          ELSE SelectionOrder(Head(selection_set).selection_set))
         \o SelectionOrder(Tail(selection_set))

\* The fields whose resolvers were started, in the order they were started
RECURSIVE Started(_)
Started(events) ==
    IF events = <<>> THEN <<>>
    ELSE IF Head(events).ev = "resolver_start"
        THEN <<Head(events).field>> \o Started(Tail(events))
    ELSE Started(Tail(events))

\* s can be obtained from t by leaving elements out
RECURSIVE IsSubsequence(_, _)
IsSubsequence(s, t) ==
    IF s = <<>> THEN TRUE
    ELSE IF t = <<>> THEN FALSE
    ELSE IF Head(s) = Head(t) THEN IsSubsequence(Tail(s), Tail(t))
    ELSE IsSubsequence(s, Tail(t))

\* C2: in do_mutation_resolve the resolvers of the root fields (those reached
\* through fragment spreads and inline fragments included) run one after
\* another in selection-set order: no resolver is started before the
\* resolver started before it has completed.
C2_MutationSequential ==
    (pc # "idle" /\ ~req.is_query) =>
        /\ \A i, j \in 1..Len(log) :
               (i < j /\ log[i].ev = "resolver_start"
                      /\ log[j].ev = "resolver_start") =>
                   \E k \in (i + 1)..(j - 1) :
                       log[k].ev = "resolver_end" /\ log[k].field = log[i].field
        /\ IsSubsequence(Started(log), SelectionOrder(req.selection_set))

\* A mutation answered after the resolvers of a fragment's field and of the
\* field that follows the fragment have run
C2_Witness ==
    /\ pc = "done"
    /\ ~req.is_query
    /\ ~IsPanic(first)
    /\ first.ok
    /\ Len(req.selection_set) = 2
    /\ req.selection_set[1].kind # "Field"
    /\ Len(Started(log)) = 2

DeferredField == Field("c", None, <<Directive("defer", <<>>)>>)

DeferQuery(caller) ==
    /\ pc = "done"
    /\ req.is_query
    /\ req.caller = caller
    /\ req.selection_set = <<DeferredField>>

\* C3: for a query that puts @defer on a field f, execution succeeds, the
\* primary response's data at f is null, and a later incremental response
\* has path [f] and f's resolved value as its data.
C3_DeferredFieldAnswered ==
    DeferQuery("execute_stream") =>
        /\ Len(stream) >= 2
        /\ stream[1].ok
        /\ stream[1].val.data = Object(<<Entry("c", Null)>>)
        /\ \E i \in 2..Len(stream) :
               /\ stream[i].ok
               /\ stream[i].val.path = Some(<<"c">>)
               /\ stream[i].val.data = IntValue(3)

\* C4: the stream of execute_stream first emits the primary response (path
\* absent), then one response for the resolved @defer batch, and ends.
C4_PrimaryThenDeferred ==
    DeferQuery("execute_stream") =>
        /\ Len(stream) = 2
        /\ stream[1].ok
        /\ stream[1].val.path = None
        /\ stream[2].ok
        /\ stream[2].val.path # None

\* C5: execute returns one complete result: the incremental response of a
\* @defer query is merged into the primary response, which is returned Ok.
C5_ExecuteMerges ==
    DeferQuery("execute") =>
        /\ "ok" \in DOMAIN out
        /\ out.ok
        /\ out.val.path = None
        /\ out.val.data = Object(<<Entry("c", IntValue(3))>>)

Root == IF req.is_query THEN Schema.query ELSE Schema.mutation

\* The resolver whose return is the i-th event of the log returned an error
FailedAt(i) ==
    /\ log[i].ev = "resolver_end"
    /\ ~IsPanic(resolve_field(Root, Field(log[i].field, None, <<>>)))
    /\ ~resolve_field(Root, Field(log[i].field, None, <<>>)).ok

\* The aliases a field may carry
Aliases == {None} \cup {Some(KeyOrder[k]) : k \in 1..Len(KeyOrder)}

\* C6: if the resolution of a field fails during do_resolve or
\* do_mutation_resolve, the operation returns that error and no response
\* data: execute_first, the stream and execute give the error alone.
C6_ErrorWithoutData ==
    \A i \in 1..Len(log) :
        FailedAt(i) =>
            /\ Answered
            /\ \E alias \in Aliases :
                   first = resolve_field(Root, Field(log[i].field, alias, <<>>))
            /\ stream \in {<<>>, <<first>>}
            /\ out \in {NoCall, first}
            /\ pc = "done" => (stream = <<first>> /\ out = Returns(first))

\* A request finished after one resolver had returned a value and another
\* an error
C6_Witness ==
    /\ pc = "done"
    /\ \E i, j \in 1..Len(log) :
           /\ log[i].ev = "resolver_end"
           /\ log[i].field = "a"
           /\ FailedAt(j)

\* What a collected future gives when it is driven alone
FutureResult(future) ==
    IF future.fut = "ready" THEN Ok(future.entry)
    ELSE IF resolve_field(future.root, future.field).ok
        THEN Ok(Entry(KeyOf(future), resolve_field(future.root, future.field).val))
    ELSE resolve_field(future.root, future.field)

\* The outcome of the mutation is one do_resolve has for the futures (or the
\* error) q that collect_fields gives on the same root and selection set
SameAsQuery(q) ==
    IF ~q.ok THEN ~first.ok /\ first.err.kind = q.err.kind
    ELSE IF \E i \in 1..Len(q.val) : ~FutureResult(q.val[i]).ok
        THEN /\ ~first.ok
             /\ \E i \in 1..Len(q.val) :
                    /\ ~FutureResult(q.val[i]).ok
                    /\ FutureResult(q.val[i]).err.kind = first.err.kind
    ELSE /\ first.ok
         /\ first.val.resp.data =
                Object(MapFromIter(<<>>, [i \in 1..Len(q.val) |->
                                             FutureResult(q.val[i]).val]))

\* C14: for the same root, selection set and environment, do_mutation_resolve
\* returns what do_resolve returns: the same object (keys, key order, values)
\* or an error of the same kind.
C14_MutationEqualsQuery ==
    (pc = "done" /\ ~req.is_query /\ ~req.empty_mutation) =>
        SameAsQuery(collect_fields(env, Root, req.selection_set, <<>>))

\* C15: for a mutation no defer list is installed in the context handed to
\* do_mutation_resolve, nothing is pushed on a defer list, and the defer list
\* returned with the primary response is empty.
C15_NoDeferListForMutation ==
    (pc # "idle" /\ ~req.is_query) =>
        /\ ~ContextDeferList(req.is_query).some
        /\ defer_list = <<>>
        /\ (Answered /\ ~IsPanic(first) /\ first.ok) => first.val.defer_list = <<>>

\* C16: a __typename selection, in a query or in a mutation, emits the root's
\* introspection_type_name() under the field's result key (alias, else
\* __typename) without calling resolve_field.
C16_TypenameUnderResultKey ==
    (pc = "done" /\ req.selection_set = <<Field("__typename", Some("t"), <<>>)>>) =>
        /\ first.ok
        /\ first.val.resp.data =
               Object(<<Entry("t", String(introspection_type_name(Root)))>>)
        /\ Started(log) = <<>>

\* The resolver of __schema has returned
SchemaResolved ==
    /\ pc # "idle"
    /\ req.is_query
    /\ \E i \in 1..Len(log) : log[i] = [ev |-> "resolver_end", field |-> "__schema"]

\* C18: with introspection disabled, __schema on the query root fails with
\* FieldNotFound naming the field and the query type and carrying the path
\* of that field, which the inner root's own FieldNotFound does not carry;
\* with introspection enabled it resolves to the introspection schema under
\* the field's result key.
C18_SchemaFieldGuarded ==
    SchemaResolved =>
        IF req.disable_introspection
            THEN /\ Answered
                 /\ first = [ok |-> FALSE,
                             err |-> [kind |-> "FieldNotFound",
                                      field_name |-> "__schema",
                                      object |-> "Query",
                                      path |-> Some(<<"s">>)]]
        ELSE \E i \in 1..Len(units) :
                 /\ units[i].status = "done"
                 /\ units[i].entry = Entry("s", IntrospectionSchema)

\* A query selecting __schema has finished against a schema with
\* introspection disabled
C18_Witness ==
    /\ pc = "done"
    /\ SchemaResolved
    /\ req.disable_introspection

\* The request selects fields only, none of them under a directive
PlainFields ==
    \A i \in 1..Len(req.selection_set) :
        /\ req.selection_set[i].kind = "Field"
        /\ req.selection_set[i].directives = <<>>

\* C20: a mutation with a non-empty selection set (here: of plain fields),
\* executed against a schema whose mutation root is EmptyMutation, returns
\* NotConfiguredMutations.
C20_EmptyMutationNotConfigured ==
    (pc = "done" /\ ~req.is_query /\ req.empty_mutation /\ PlainFields) =>
        /\ ~IsPanic(first)
        /\ ~first.ok
        /\ first.err.kind = "NotConfiguredMutations"

\* The field units that have called get_resolve_id
Obtained ==
    {i \in 1..Len(units) :
        units[i].future.fut = "field" /\ units[i].status # "pending"}

\* The positions of the log at which resolve_field_start was fired
Starts == {i \in 1..Len(log) : log[i].ev = "resolve_field_start"}

\* C26: within one execution, under every interleaving of the field units,
\* no two field units obtain the same resolve_id, and the ids passed to
\* resolve_field_start are pairwise distinct.
C26_ResolveIdsDistinct ==
    /\ \A i, j \in Obtained : i # j => units[i].id # units[j].id
    /\ \A i, j \in Starts : i # j => log[i].id # log[j].id
    /\ \A i \in Obtained : units[i].id < resolve_id

\* Two field units have obtained their ids, the second before the first, and
\* both ids were passed to resolve_field_start
C26_Witness ==
    /\ pc = "query"
    /\ Obtained = {1, 2}
    /\ units[2].id < units[1].id
    /\ Cardinality(Starts) = 2

\* The selections of the request that carry @defer
DeferredSelections ==
    {i \in 1..Len(req.selection_set) : req.selection_set[i] = DeferredField}

\* A query of fields that resolve, at least one of them deferred
QueryWithDeferred ==
    /\ pc = "first_done"
    /\ req.is_query
    /\ DeferredSelections # {}
    /\ \A i \in 1..Len(req.selection_set) :
           req.selection_set[i] \in
               {DeferredField, Field("a", None, <<>>), Field("b", Some("x"), <<>>)}

\* C27: under every interleaving of the field units each deferred field is
\* pushed on the defer list exactly once, nothing pushed is lost, and the list
\* handed back with the primary response holds exactly one item per deferred
\* field.
C27_DeferredPushedOnce ==
    QueryWithDeferred =>
        /\ ~IsPanic(first)
        /\ first.ok
        /\ Len(first.val.defer_list) = Cardinality(DeferredSelections)
        /\ \A i \in 1..Len(first.val.defer_list) :
               first.val.defer_list[i]
                   = DeferFuture(FieldFuture(Schema.query, DeferredField))

\* execute_stream has ended on a query of fields that resolve, at least one
\* of them deferred
StreamOfDeferred ==
    /\ pc = "done"
    /\ req.is_query
    /\ req.caller = "execute_stream"
    /\ DeferredSelections # {}
    /\ \A i \in 1..Len(req.selection_set) :
           req.selection_set[i] \in
               {DeferredField, Field("a", None, <<>>), Field("b", Some("x"), <<>>)}

\* C30: execute_stream drains the deferred items in batches: every item on a
\* defer list is driven exactly once, its response emitted after the primary
\* response and before those of the batch it deferred, and the stream ends
\* after the first batch that defers nothing.
C30_DeferredDrivenInBatches ==
    StreamOfDeferred =>
        /\ Len(stream) = 1 + Cardinality(DeferredSelections)
        /\ stream[1].ok
        /\ stream[1].val.path = None
        /\ \A i \in 2..Len(stream) :
               /\ stream[i].ok
               /\ stream[i].val = QueryResponse(Some(<<"c">>), IntValue(3))
        /\ drain = [current |-> <<>>, new |-> <<>>]

\* C31: every incremental response carries the path of its deferred field
\* from the root of the response, [...ancestors, result key]: each deferred
\* field of the query is answered by a response under that path.
C31_IncrementalCarriesPath ==
    StreamOfDeferred =>
        \A i \in DeferredSelections :
            \E j \in 2..Len(stream) :
                /\ stream[j].ok
                /\ stream[j].val.path
                       = Some(<<result_name(req.selection_set[i])>>)

\* The errors the engine raises itself
EngineRaised == {"FieldNotFound", "UnknownFragment", "MustHaveSubFields"}

\* C32: every error produced while visiting a field carries the query path
\* serialized at the failure site, the engine-raised errors FieldNotFound,
\* UnknownFragment and MustHaveSubFields included.
C32_EngineErrorsCarryPath ==
    (Answered /\ ~IsPanic(first) /\ ~first.ok /\ first.err.kind \in EngineRaised)
        => first.err.path # None

\* resolve_field_start was fired at p, right before the resolver of field
\* was invoked
StartedAt(p, field) ==
    /\ log[p].ev = "resolve_field_start"
    /\ log[p + 1].ev = "resolver_start"
    /\ log[p + 1].field = field

C34_DeferredResolvedWhenDriven ==
    StreamOfDeferred =>
        /\ \A p \in 1..Len(log) :
               log[p].ev = "resolver_start" => log[p].field # DeferredField.name
        /\ stream[1].ok
        /\ stream[1].val.path = None
        /\ \E j \in 2..Len(stream) :
               stream[j].ok /\ stream[j].val.data = Resolvers[DeferredField.name].val

\* The object contributes itself to an inline fragment on name
OnType(root, name) == name = root.type_name \/ name \in root.implements

\* The directive checks, the fragment lookups and the empty-selection checks
\* of a selection set, its fragments expanded, all pass
RECURSIVE ChecksPass(_, _)
ChecksNext(root, s, rest, skip) ==
    IF ~skip.ok THEN FALSE
    ELSE IF skip.val \/ s.kind = "Field" THEN ChecksPass(root, rest)
    ELSE IF s.kind = "FragmentSpread"
        THEN /\ s.fragment_name \in DOMAIN env.fragments
             /\ env.fragments[s.fragment_name] # <<>>
             /\ ChecksPass(root, env.fragments[s.fragment_name])
             /\ ChecksPass(root, rest)
    ELSE IF s.type_condition.some /\ ~OnType(root, s.type_condition.val)
        THEN ChecksPass(root, rest)
    ELSE /\ s.selection_set # <<>>
         /\ ChecksPass(root, s.selection_set)
         /\ ChecksPass(root, rest)

ChecksPass(root, sels) ==
    IF sels = <<>> THEN TRUE
    ELSE ChecksNext(root, Head(sels), Tail(sels), is_skip(env, Head(sels).directives))

\* The fields whose resolvers a sequential walk of the selections invokes, in
\* order, up to the first selection that fails; collected says whether a
\* typed inline fragment is checked as a whole before any of its fields runs
RECURSIVE WalkRuns(_, _, _)
WalkNext(root, s, rest, skip, collected) ==
    IF ~skip.ok THEN <<>>
    ELSE IF skip.val THEN WalkRuns(root, rest, collected)
    ELSE IF s.kind = "Field"
        THEN IF s.name = "__typename" THEN WalkRuns(root, rest, collected)
             ELSE IF req.extensions /\ ~field_by_name(root, s.name) THEN <<>>
             ELSE IF resolve_field(root, s).ok
                 THEN <<s.name>> \o WalkRuns(root, rest, collected)
             ELSE <<s.name>>
    ELSE IF s.kind = "FragmentSpread"
        THEN IF s.fragment_name \notin DOMAIN env.fragments THEN <<>>
             ELSE IF env.fragments[s.fragment_name] = <<>> THEN <<>>
             ELSE WalkRuns(root, env.fragments[s.fragment_name] \o rest, collected)
    ELSE IF s.type_condition.some /\ ~OnType(root, s.type_condition.val)
        THEN WalkRuns(root, rest, collected)
    ELSE IF s.selection_set = <<>> THEN <<>>
    ELSE IF s.type_condition.some /\ collected /\ ~ChecksPass(root, s.selection_set)
        THEN <<>>
    ELSE WalkRuns(root, s.selection_set \o rest, collected)

WalkRuns(root, sels, collected) ==
    IF sels = <<>> THEN <<>>
    ELSE WalkNext(root, Head(sels), Tail(sels),
                  is_skip(env, Head(sels).directives), collected)

\* The resolvers that were invoked and those that returned, in order
ResolverLog ==
    SelectSeq(log, LAMBDA e : e.ev \in {"resolver_start", "resolver_end"})

\* Each of the fields was resolved to completion, one after the other
RanInTurn(fields) ==
    /\ Len(ResolverLog) = 2 * Len(fields)
    /\ \A i \in 1..Len(fields) :
           /\ ResolverLog[2 * i - 1] = [ev |-> "resolver_start", field |-> fields[i]]
           /\ ResolverLog[2 * i] = [ev |-> "resolver_end", field |-> fields[i]]

\* A mutation has been answered with an error
MutationFailed ==
    /\ Answered
    /\ ~req.is_query
    /\ ~req.empty_mutation
    /\ ~first.ok

\* C36 as stated: when a selection of a mutation fails, no resolver of a
\* later selection is invoked and the resolvers of all earlier fields have
\* run to completion.
C36_EarlierFieldsHaveRun ==
    MutationFailed => RanInTurn(WalkRuns(Schema.mutation, req.selection_set, FALSE))

\* C36: when a selection of a mutation fails, no resolver of a later
\* selection is invoked; the resolvers of the earlier fields have run to
\* completion, except that a directive, fragment or empty-selection error
\* inside an inline fragment with a type condition is raised before any
\* field of that inline fragment runs.
C36_FailureStopsTheWalk ==
    MutationFailed => RanInTurn(WalkRuns(Schema.mutation, req.selection_set, TRUE))

\* b has run; the inline fragment on Mutation after it was refused for the
\* absent fragment it spreads, before its first field ran
C36_Witness ==
    /\ MutationFailed
    /\ req.selection_set
           = <<Field("b", Some("x"), <<>>),
               InlineFragment(Some("Mutation"), <<>>,
                              <<Field("a", None, <<>>), FragmentSpread("G", <<>>)>>)>>
    /\ first.err.kind = "UnknownFragment"
    /\ RanInTurn(<<"b">>)

\* C37: in do_resolve the directive checks, the fragment lookups and the
\* empty-selection checks of the whole selection set, its fragments expanded,
\* are made while the field futures are collected, before any is polled: if
\* one of them fails, no field resolver of the selection set is invoked.
C37_ChecksBeforeResolvers ==
    (pc # "idle" /\ req.is_query /\ ~ChecksPass(Schema.query, req.selection_set)) =>
        /\ ResolverLog = <<>>
        /\ units = <<>>
        /\ resolve_id = 0
        /\ Answered => ~first.ok

\* A query whose second selection spreads an absent fragment has failed; the
\* resolver of its first field was not invoked
C37_Witness ==
    /\ Answered
    /\ req.is_query
    /\ req.selection_set = <<Field("a", None, <<>>), FragmentSpread("G", <<>>)>>
    /\ first = UnknownFragment("G")
    /\ ResolverLog = <<>>

-----------------------------------------------------------------------------
(* Properties of the request-level callbacks (checked under SpecPhases)    *)

\* The request-level callbacks in the order of the phases
PhaseOrder ==
    <<"parse_start", "parse_end", "validation_start", "validation_end",
      "execution_start", "execution_end">>

\* The request-level callbacks that were fired, in order
RequestLog ==
    LET fired == SelectSeq(log, LAMBDA e :
                     e.ev \in {PhaseOrder[i] : i \in 1..Len(PhaseOrder)})
    IN  [i \in 1..Len(fired) |-> fired[i].ev]

\* The first n callbacks of the order have fired, and no other
FiredUpTo(n) == RequestLog = SubSeq(PhaseOrder, 1, n)

\* C38: the request-level callbacks fire in the order parse_start, parse_end,
\* validation_start, validation_end, execution_start, execution_end; every
\* resolve_field_start and resolve_field_end falls between execution_start
\* and execution_end; when a phase fails, its end callback and the callbacks
\* of the later phases are never fired.
C38_CallbacksInPhaseOrder ==
    (pc # "idle" /\ req.extensions) =>
        /\ \E n \in 0..Len(PhaseOrder) : FiredUpTo(n)
        /\ \A p \in 1..Len(log) :
               log[p].ev \in {"resolve_field_start", "resolve_field_end"} =>
                   /\ \E q \in 1..(p - 1) : log[q].ev = "execution_start"
                   /\ \A q \in 1..p : log[q].ev # "execution_end"
        /\ Answered =>
               IF ~req.parsed THEN FiredUpTo(1)
               ELSE IF ~req.valid THEN FiredUpTo(3)
               ELSE IF ~check_limit(req.check, req.limits).ok THEN FiredUpTo(4)
               ELSE IF ~first.ok THEN FiredUpTo(5)
               ELSE FiredUpTo(6)

\* A query was parsed and validated, its first field was resolved and its
\* second failed: execution_start was the last request-level callback
C38_Witness ==
    /\ Answered
    /\ req.extensions
    /\ req.parsed /\ req.valid
    /\ req.selection_set = <<Field("a", None, <<>>), Field("fail", None, <<>>)>>
    /\ ~first.ok
    /\ FiredUpTo(5)
    /\ \E p \in 1..Len(log) : log[p].ev = "resolve_field_end"

-----------------------------------------------------------------------------
(* Properties of the limits (checked under SpecLimited)                    *)

\* The validator reported a complexity, a depth, greater than the limit
OverComplexity ==
    req.limits.complexity.some /\ req.check.complexity > req.limits.complexity.val
OverDepth ==
    req.limits.depth.some /\ req.check.depth > req.limits.depth.val

\* Nothing was executed: no resolver was invoked, execution_start not fired
NothingExecuted ==
    /\ log = <<>>
    /\ units = <<>>
    /\ resolve_id = 0

\* C25 as stated: a complexity over its limit fails with TooComplex and a
\* depth over its limit with TooDeep, before execution.
C25_LimitsAsStated ==
    pc # "idle" =>
        /\ OverComplexity => (Answered /\ first = TooComplex /\ NothingExecuted)
        /\ OverDepth => (Answered /\ first = TooDeep /\ NothingExecuted)

\* C25: a complexity over its limit fails with TooComplex; a depth over its
\* limit, the complexity being within its own, fails with TooDeep; either
\* way nothing is executed; values that do not exceed their limits, equal
\* ones included, pass and the query is answered.
C25_LimitsBeforeExecution ==
    pc # "idle" =>
        /\ OverComplexity => (Answered /\ first = TooComplex /\ NothingExecuted)
        /\ (~OverComplexity /\ OverDepth) =>
               (Answered /\ first = TooDeep /\ NothingExecuted)
        /\ (~OverComplexity /\ ~OverDepth /\ Answered) => first.ok

\* A query whose complexity equals its limit and whose depth exceeds its own
\* was refused with TooDeep
C25_Witness ==
    /\ pc = "done"
    /\ req.limits.complexity = Some(req.check.complexity)
    /\ OverDepth
    /\ first = TooDeep
    /\ NothingExecuted

-----------------------------------------------------------------------------
(* Properties of Variables (checked under SpecVariables)                   *)

\* Each segment addresses an existing child of the value reached so far
RECURSIVE Resolves(_, _)
Resolves(value, segments) ==
    IF segments = <<>> THEN TRUE
    ELSE IF Head(segments).seg = "Index"
        THEN /\ value.t = "List"
             /\ Head(segments).idx \in 0..(Len(value.items) - 1)
             /\ Resolves(value.items[Head(segments).idx + 1], Tail(segments))
    ELSE /\ value.t = "Object"
         /\ \E i \in 1..Len(value.fields) :
                /\ value.fields[i].k = Head(segments).s
                /\ Resolves(value.fields[i].val, Tail(segments))

PathResolves ==
    /\ Head(call.var_path) = Name("variables")
    /\ Resolves(call.variables, Tail(call.var_path))

\* C11: set_upload leaves the variables unchanged whenever var_path does not
\* resolve (first segment not `variables`, or a later segment that does not
\* address an existing child of the value reached so far).
C11_UnresolvedPathNoOp ==
    (call.op = "set_upload" /\ ~PathResolves) => ret = call.variables

\* value with the value the segments address replaced by new
RECURSIVE Replaced(_, _, _)
Replaced(value, segments, new) ==
    IF segments = <<>> THEN new
    ELSE IF Head(segments).seg = "Index"
        THEN [value EXCEPT !.items[Head(segments).idx + 1] =
                               Replaced(@, Tail(segments), new)]
    ELSE [value EXCEPT
             !.fields[CHOOSE i \in 1..Len(value.fields) :
                          value.fields[i].k = Head(segments).s].val =
                 Replaced(@, Tail(segments), new)]

UploadMarker ==
    IF call.content_type.some
        THEN "file:" \o call.filename \o ":" \o call.content_type.val
                 \o "|" \o call.path
    ELSE "file:" \o call.filename \o "|" \o call.path

Low32(limbs) ==
    IF limbs[3] < SignLimb THEN limbs[3] * LimbBase + limbs[4]
    ELSE (limbs[3] - LimbBase) * LimbBase + limbs[4]

\* C13: parse_from_json maps every JSON integer n to Int holding the low 32
\* bits of n read as a signed value.
C13_IntegersTruncated ==
    (/\ call.op = "parse_from_json"
     /\ call.value.j = "Object"
     /\ call.value.fields[1].val.j = "Number"
     /\ call.value.fields[1].val.n.n # "Float") =>
        ret = Ok(Object(<<Entry("n",
                     IntValue(Low32(call.value.fields[1].val.n.limbs)))>>))

-----------------------------------------------------------------------------
(* Properties of a Variables value over its life (checked under SpecHeld)  *)

\* C40: after any sequence of Variables::parse_from_json, Variables::default
\* and set_upload calls, the root of a Variables value is an Object, so
\* dereferencing it never reaches unreachable!(); parse_from_json of a JSON
\* value that is not an object gives the empty object, and set_upload keeps
\* the root an object with the keys it had.
C40_RootIsObject ==
    HoldsVariables =>
        /\ ret.t = "Object"
        /\ deref(ret) # Unreachable
        /\ (call.op = "parse_from_json" /\ call.value.j # "Object") =>
               ret = DefaultVariables
        /\ call.op = "set_upload" =>
               /\ Len(ret.fields) = Len(call.variables.fields)
               /\ \A i \in 1..Len(ret.fields) :
                      ret.fields[i].k = call.variables.fields[i].k

\* set_upload writes into variables that already hold an upload
C40_Witness ==
    /\ call.op = "set_upload"
    /\ \E i \in 1..Len(call.variables.fields) :
           call.variables.fields[i].val.t = "String"
    /\ ret # call.variables
    /\ deref(ret) # Unreachable

-----------------------------------------------------------------------------
(* Properties of the context operations (checked under SpecCtx)            *)

Declared(e, name) ==
    \E i \in 1..Len(e.variable_definitions) : e.variable_definitions[i].name = name

\* The default the operation declares for name, as a set (empty if none)
DeclaredDefaults(e, name) ==
    {e.variable_definitions[i].default_value.val :
        i \in {j \in 1..Len(e.variable_definitions) :
                  /\ e.variable_definitions[j].name = name
                  /\ e.variable_definitions[j].default_value.some}}

\* C7: for every boolean v, written literally or through a variable, is_skip
\* gives the same result for [@skip(if: v)] as for [@include(if: not v)]:
\* the selection is omitted exactly when v is true.
C7_SkipIncludeEquivalent ==
    call.op = "skip_include" =>
        /\ ret.skip = ret.include
        /\ ret.skip = Ok(call.v)

C7_Witness ==
    /\ call.op = "skip_include"
    /\ call.v
    /\ call.skip.t = "Variable"
    /\ call.include = Boolean(FALSE)
    /\ ret.skip = Ok(TRUE)
    /\ ret.include = Ok(TRUE)

\* C8 as stated: is_skip yields UnknownDirective exactly for the directive
\* lists that contain a directive not named skip, include or defer.
C8_UnknownDirectiveExactly ==
    call.op = "is_skip" =>
        ((~ret.ok /\ ret.err.kind = "UnknownDirective")
            <=> \E i \in 1..Len(call.directives) :
                    call.directives[i].name \notin {"skip", "include", "defer"})

\* C9 as stated: var_value returns the value the request supplies for name
\* if there is one, otherwise the declared default if there is one, otherwise
\* VarNotDefined.
C9_SuppliedThenDefault ==
    call.op = "var_value" =>
        IF call.name \in DOMAIN env.variables
            THEN ret = Ok(env.variables[call.name])
        ELSE IF DeclaredDefaults(env, call.name) # {}
            THEN ret.ok /\ ret.val \in DeclaredDefaults(env, call.name)
        ELSE ret = Err("VarNotDefined", call.name)

\* C9 amended: for a name the operation declares, var_value returns the
\* supplied value if there is one, otherwise the declared default if there is
\* one, otherwise VarNotDefined; for a name the operation does not declare it
\* fails with VarNotDefined even when the request supplies a value.
C9_DeclaredSuppliedThenDefault ==
    call.op = "var_value" =>
        IF ~Declared(env, call.name)
            THEN ret = Err("VarNotDefined", call.name)
        ELSE IF call.name \in DOMAIN env.variables
            THEN ret = Ok(env.variables[call.name])
        ELSE IF DeclaredDefaults(env, call.name) # {}
            THEN ret.ok /\ ret.val \in DeclaredDefaults(env, call.name)
        ELSE ret = Err("VarNotDefined", call.name)

C9_Witness ==
    /\ call.op = "var_value"
    /\ ~Declared(env, call.name)
    /\ call.name \in DOMAIN env.variables
    /\ ret = Err("VarNotDefined", call.name)

\* What param_value must give for the value v it binds and the target ty
Bound(ty, v, r) ==
    IF parse(ty, v).some
        THEN r = Ok(parse(ty, v).val)
    ELSE /\ ~r.ok
         /\ r.err.kind = "ExpectedType"
         /\ r.err.actual = v

\* C10: when the field supplies the argument, the supplied value with its
\* variables resolved is parsed and the default thunk is not used; when the
\* argument is absent, the thunk's value is parsed; in both cases a value the
\* target type does not parse yields ExpectedType carrying that value.
C10_ParamValueBinds ==
    call.op = "param_value" =>
        LET at == {i \in 1..Len(call.arguments) :
                      call.arguments[i].name = call.name}
        IN  IF at = {}
                THEN Bound(call.ty, call.default, ret)
            ELSE LET i == CHOOSE j \in at : \A k \in at : j <= k
                     r == resolve_input_value(env, call.arguments[i].value)
                 IN  r.ok => Bound(call.ty, r.val, ret)

C10_Witness ==
    /\ call.op = "param_value"
    /\ call.ty = "Int"
    /\ call.default = IntValue(7)
    /\ call.arguments = <<Argument(call.name, Variable("x"))>>
    /\ env.variables = [n \in {"x"} |-> Boolean(TRUE)]
    /\ ~ret.ok
    /\ ret.err.kind = "ExpectedType"
    /\ ret.err.actual = Boolean(TRUE)

-----------------------------------------------------------------------------
(* Properties of resolve_input_value (checked under SpecInput)             *)

\* The variables that are direct elements of a list, direct values of an object
DirectVariables(value) ==
    IF value.t = "List"
        THEN {value.items[i].name : i \in {j \in 1..Len(value.items) :
                                              value.items[j].t = "Variable"}}
    ELSE IF value.t = "Object"
        THEN {value.fields[i].val.name : i \in {j \in 1..Len(value.fields) :
                                                  value.fields[j].val.t = "Variable"}}
    ELSE {}

\* v, replaced by its var_value when it is a Variable
VariableReplaced(v) == IF v.t = "Variable" THEN var_value(env, v.name).val ELSE v

\* The value with each of its direct variables replaced
DirectReplaced(value) ==
    IF value.t = "List"
        THEN List([i \in 1..Len(value.items) |-> VariableReplaced(value.items[i])])
    ELSE IF value.t = "Object"
        THEN Object([i \in 1..Len(value.fields) |->
                        Entry(value.fields[i].k, VariableReplaced(value.fields[i].val))])
    ELSE value

\* C28: resolve_input_value replaces a Variable at the top level, and every
\* Variable that is a direct element of a top-level List or a direct value of
\* a top-level Object, by its var_value, failing with VarNotDefined if any of
\* those is undefined; a Variable two or more levels deep is left in place
\* and raises no error.
C28_ResolvesOneLevel ==
    call.op = "resolve_input_value" =>
        IF call.value.t = "Variable" THEN ret = var_value(env, call.value.name)
        ELSE IF \E n \in DirectVariables(call.value) : ~var_value(env, n).ok
            THEN /\ ~ret.ok
                 /\ ret.err.kind = "VarNotDefined"
                 /\ ret.err.name \in DirectVariables(call.value)
                 /\ ~var_value(env, ret.err.name).ok
        ELSE ret = Ok(DirectReplaced(call.value))

\* An object with a defined variable as a direct value, and an undefined one
\* two levels deep, is answered with the first replaced and the second left
C28_Witness ==
    /\ call.op = "resolve_input_value"
    /\ call.value = Object(<<Entry("a", Variable("x")),
                             Entry("b", List(<<Variable("y")>>))>>)
    /\ var_value(env, "x").ok
    /\ ~var_value(env, "y").ok
    /\ ret = Ok(Object(<<Entry("a", var_value(env, "x").val),
                         Entry("b", List(<<Variable("y")>>))>>))

\* No Variable at the top level or one level inside a list or an object
NoShallowVariable(value) ==
    value.t # "Variable" /\ DirectVariables(value) = {}

\* C29: a value with no Variable at the top level or one level inside a
\* list or an object is returned unchanged and without error under every
\* environment, and applying resolve_input_value to the result gives the
\* same result again.
C29_UnchangedWithoutVariables ==
    (call.op = "resolve_input_value" /\ NoShallowVariable(call.value)) =>
        /\ ret = Ok(call.value)
        /\ resolve_input_value(env, ret.val) = ret

\* A list holding a list with an undefined variable has been returned as it was
C29_Witness ==
    /\ call.op = "resolve_input_value"
    /\ call.value = List(<<List(<<Variable("x")>>), IntValue(1)>>)
    /\ ~var_value(env, "x").ok
    /\ ret = Ok(call.value)

====
